---- MODULE Spec2Model ----
(***************************************************************************)
(* Real-estate listing backend: the subscription lifecycle and its         *)
(* reconciliation with the payment provider's webhooks.                    *)
(*                                                                         *)
(* The document store holds the "users" and "subscriptions" collections.   *)
(* Time is counted in days.  A collection is a sequence in insertion       *)
(* order; a document's _id is its index.  created_at is utcnow() at the    *)
(* insert, and the wall clock is finer than the model's day, so of two     *)
(* documents with the same created_at day the later inserted is the more   *)
(* recent one.                                                             *)
(***************************************************************************)
EXTENDS Integers, Sequences, FiniteSets

VARIABLES users, subs, now, nextSid, delivered, resp, tz

vars == <<users, subs, now, nextSid, delivered, resp, tz>>

\* the listing collections of listings_db and the answer of the last listing
\* query
VARIABLES colls, lres

listingVars == <<colls, lres>>

\* the "favorites" collection of user_db
VARIABLES favs

favVars == <<favs>>

\* whether the bcrypt backend of pwd_context works in this build, and the last
\* password that was hashed and verified
VARIABLES bcryptOk, pw

pwVars == <<bcryptOk, pw>>

\* the answer of the last request that presented a bearer token
VARIABLES tres

tokenVars == <<tres>>

\* the module-level dict email_check_requests of the check-email endpoint, the
\* value of time.time() in seconds, the answer of the last check-email
\* request, and per client address the number of requests that passed the
\* rate limiter at each arrival time
VARIABLES email_check_requests, clock, cres, admitted

rateVars == <<email_check_requests, clock, cres, admitted>>

\* the requests to the favorites and listing-by-id endpoints, which run side
\* by side in the thread pool: each one's position in the handler, its
\* request and answer, and whether the requests so far ran one after the
\* other
VARIABLES pc, inflight, serial

raceVars == <<pc, inflight, serial>>

laterVars == <<tokenVars, rateVars, raceVars>>

\* what the subscription endpoints and the webhook leave alone
restVars == <<listingVars, favVars, pwVars, laterVars>>

(* ------------------------------ bounds -------------------------------- *)
MaxSubs == 2
MaxNow == 30
MaxDeliveries == 3
TickStep == 15

\* check-email requests served in one behaviour, and the clock of that endpoint
MaxRequests == 12
MaxClock == 60
ClockStep == 30

\* user documents in one behaviour of the registration endpoints
MaxUsers == 4

(* ------------------------- program constants -------------------------- *)
\* timedelta(days=30)
PeriodDays == 30

Emails == {"a@x", "b@x"}
NoEmail == "none"
\* provider subscription ids: 0 stands for an absent id, the positive ones
\* are issued by stripe.Subscription.create in this backend's create flows,
\* the negative ones are provider subscriptions this backend did not create
NoSid == 0
ExternalSids == {-1, -2}

\* settings.STRIPE_PRODUCT_ID can be read.  Settings declares no such field
\* (its Stripe section is empty) and ignores the entries of the environment
\* it does not declare, so reading the attribute raises AttributeError,
\* whatever the environment holds.
ProductIdConfigured == FALSE

\* the result of stripe.Subscription.retrieve(...).status in cancel, or the
\* stripe.error.StripeError it raises
ProviderStatuses == {"active", "canceled", "past_due", "error"}

HTTP_200 == 200
HTTP_400 == 400
HTTP_401 == 401
HTTP_403 == 403
HTTP_404 == 404
HTTP_500 == 500

\* an absent timestamp (None, or no such key in the payload)
NoTs == -1

NoDetail == "none"

\* no provider event (the request was not a webhook delivery)
NoEvent == [type |-> "none", sid |-> NoSid, ts |-> NoTs, email |-> NoEmail]

\* no listing query has been answered
NoListingResponse == [status |-> "none"]

\* no password has been hashed
NoPassword == [op |-> "none"]

\* no bearer token has been presented
NoTokenResponse == [status |-> 0]

\* no check-email request has been answered
NoCheckResponse == [n |-> 0, ip |-> "none", at |-> 0, status |-> 0]

\* the last request and what its caller saw: the endpoint, the HTTP status,
\* the message that tells the branches of a successful response apart, and
\* for a webhook delivery the event, which the provider may deliver again
Exchange(op, code, detail, ev) ==
    [op |-> op, code |-> code, detail |-> detail, event |-> ev]

Response(op, code, detail) == Exchange(op, code, detail, NoEvent)

(* ------------------------------ queries ------------------------------- *)
UserIds == 1..Len(users)

\* get_user_by_email: the user document with this email, 0 for None
get_user_by_email(email) ==
    IF \E u \in UserIds : users[u].email = email
    THEN CHOOSE u \in UserIds : users[u].email = email
    ELSE 0

\* Email texts beyond Emails.  The model's "b@x" stands for a well-formed
\* address; "b@X" is the same address with its domain in upper case;
\* "b @x." has an "@" and a "." but is no address EmailStr accepts;
\* "nobody" has neither.
MalformedEmails == {"b @x.", "nobody"}

\* pydantic's EmailStr accepts the text
IsEmailStr(email) == email \notin MalformedEmails

\* the value an EmailStr field holds: the domain in lower case
NormalizeEmail(email) == IF email = "b@X" THEN "b@x" ELSE email

\* '"@" not in email or "." not in email' of register-flexible and
\* check-email
HasAtAndDot(email) == email # "nobody"

\* get_user_by_email raises: UserInDB(**user_doc) validates the stored email
\* as an EmailStr, and the document found does not pass
get_user_by_email_raises(email) ==
    /\ get_user_by_email(email) # 0
    /\ ~IsEmailStr(users[get_user_by_email(email)].email)

\* the indexes of the documents find({"user_id": u}) matches
UserSubs(s, u) == {i \in 1..Len(s) : s[i].user_id = u}

\* sort=[("created_at", -1)]: the first document of the descending order
MostRecentOf(s, idx) ==
    CHOOSE i \in idx : \A j \in idx :
        \/ s[j].created_at < s[i].created_at
        \/ (s[j].created_at = s[i].created_at /\ j <= i)

\* find({"user_id": u, "status": st})
UserSubsWithStatus(s, u, st) == {i \in UserSubs(s, u) : s[i].status = st}

\* find({"stripe_subscription_id": sid})
SubsWithSid(s, sid) == {i \in 1..Len(s) : s[i].stripe_subscription_id = sid}

\* the $or filter of get_current_subscribed_user on one document, at time t
ValidAt(d, t) ==
    \/ (d.status = "active" /\ d.ends_at > t)
    \/ (d.status = "cancelled" /\ d.ends_at > t)

\* get_current_subscribed_user: TRUE when the user is returned, FALSE when
\* HTTP 403 is raised
get_current_subscribed_user(us, s, t, u) ==
    IF us[u].role = "admin"
    THEN TRUE
    ELSE \E i \in UserSubs(s, u) : ValidAt(s[i], t)

(* ------------------------------ documents ----------------------------- *)
\* subscription_doc of process_stripe_subscription_with_user,
\* process_stripe_renewal and process_stripe_subscription_for_user
NewSubscriptionDoc(u, sid, t) ==
    [user_id |-> u, user_email |-> NoEmail, status |-> "active",
     stripe_subscription_id |-> sid,
     ends_at |-> t + PeriodDays, created_at |-> t]

\* a synthesized document that carries the id of the user the looked-up
\* email belongs to
SynthesizedDoc_ForUser(email, sid, t) ==
    [user_id |-> get_user_by_email(email), user_email |-> email,
     status |-> "active", stripe_subscription_id |-> sid,
     ends_at |-> t + PeriodDays, created_at |-> t]

\* subscription_doc_to_insert of handle_subscription_payment_succeeded
SynthesizedDoc(email, sid, t) ==
    [user_id |-> 0, user_email |-> email, status |-> "active",
     stripe_subscription_id |-> sid,
     ends_at |-> t + PeriodDays, created_at |-> t]

\* a status update that also ends the period at once
SetStatus_EndsNow(s, i, st) == [s EXCEPT ![i].status = st, ![i].ends_at = now]

\* update_one({"_id": i}, {"$set": {"status": st}})
SetStatus(s, i, st) == [s EXCEPT ![i].status = st]

\* update_one({"_id": i}, {"$set": {"status": st, "ends_at": e}})
SetStatusEnd(s, i, st, e) == [s EXCEPT ![i].status = st, ![i].ends_at = e]

\* update_one({"stripe_subscription_id": sid}, {"$set": ...}): the first
\* matching document, none when nothing matches
UpdateOneBySid(s, sid, st, e) ==
    IF SubsWithSid(s, sid) = {}
    THEN s
    ELSE LET i == CHOOSE k \in SubsWithSid(s, sid) :
                      \A j \in SubsWithSid(s, sid) : k <= j
         IN  SetStatusEnd(s, i, st, e)

(* ------------------------------- Init --------------------------------- *)
\* no listing is stored and no listing query has been made
IdleListings == colls = <<>> /\ lres = NoListingResponse

\* no favorite is stored
IdleFavorites == favs = <<>>

\* no password is being hashed
IdlePasswords == bcryptOk = TRUE /\ pw = NoPassword

\* no token has been presented, the check-email endpoint has served nobody,
\* and no favorites request is running
IdleTokens == tres = NoTokenResponse

IdleRate ==
    /\ email_check_requests = <<>>
    /\ clock = 0
    /\ cres = NoCheckResponse
    /\ admitted = <<>>

IdleRace == pc = <<>> /\ inflight = <<>> /\ serial = TRUE

IdleLater == IdleTokens /\ IdleRate /\ IdleRace

\* the users once create_admin.py has been run and one user has registered
SeedUsers ==
    <<[email |-> "a@x", role |-> "user"],
      [email |-> "root@x", role |-> "admin"]>>

\* users and subscriptions before the first request, the collection being s
\* and n of the provider's events delivered
InitStore(s, n) ==
    /\ users = SeedUsers
    /\ subs = s
    /\ now = 0
    /\ nextSid = Len(s) + 1
    /\ delivered = n
    /\ resp = Response("init", HTTP_200, NoDetail)

\* nothing is subscribed
InitSubscriptions == InitStore(<<>>, 0)

\* the backend with an empty subscriptions collection, on a UTC server
InitUnsubscribed ==
    /\ InitSubscriptions
    /\ tz = 0
    /\ IdleListings
    /\ IdleFavorites
    /\ IdlePasswords
    /\ IdleLater

\* The backend as it is started: no request of this build has written a
\* subscription record yet.
Init == InitUnsubscribed

(* ------------------------------ actions ------------------------------- *)
\* time passes; no request is handled
Tick ==
    /\ now + TickStep <= MaxNow
    /\ now' = now + TickStep
    /\ UNCHANGED <<users, subs, nextSid, delivered, resp, tz, restVars>>

\* POST /v1/payments/create-subscription, with
\* process_stripe_subscription_with_user.  A StripeError becomes an
\* HTTPException inside the endpoint's try block, whose except Exception
\* turns it into a 500; so does the exception raised where the product id is
\* read.  The provider calls and that read come before both inserts.
create_subscription(email, providerOk) ==
    IF get_user_by_email_raises(email)
    THEN /\ resp' = Response("create_subscription", HTTP_500, NoDetail)
         /\ UNCHANGED <<users, subs, now, nextSid, delivered, tz, restVars>>
    ELSE IF get_user_by_email(email) # 0
    THEN /\ resp' = Response("create_subscription", HTTP_400, NoDetail)
         /\ UNCHANGED <<users, subs, now, nextSid, delivered, tz, restVars>>
    ELSE IF ~providerOk \/ ~ProductIdConfigured
    THEN /\ resp' = Response("create_subscription", HTTP_500, NoDetail)
         /\ UNCHANGED <<users, subs, now, nextSid, delivered, tz, restVars>>
    ELSE /\ Len(subs) < MaxSubs
         /\ users' = Append(users, [email |-> email, role |-> "user"])
         /\ subs' = Append(subs, NewSubscriptionDoc(Len(users) + 1, nextSid, now))
         /\ nextSid' = nextSid + 1
         /\ resp' = Response("create_subscription", HTTP_200, "account_created")
         /\ UNCHANGED <<now, delivered, tz, restVars>>

\* process_stripe_renewal, called inside renew_subscription's try block:
\* the customer is created, the product id is read, the provider
\* subscription is created, the record is inserted
process_stripe_renewal(u, providerOk) ==
    IF ~providerOk \/ ~ProductIdConfigured
    THEN /\ resp' = Response("renew", HTTP_500, NoDetail)
         /\ UNCHANGED <<users, subs, now, nextSid, delivered, tz, restVars>>
    ELSE /\ Len(subs) < MaxSubs
         /\ subs' = Append(subs, NewSubscriptionDoc(u, nextSid, now))
         /\ nextSid' = nextSid + 1
         /\ resp' = Response("renew", HTTP_200, "renewed")
         /\ UNCHANGED <<users, now, delivered, tz, restVars>>

\* process_stripe_subscription_for_user, called inside
\* create_subscription_for_user's try block, in the same order
process_stripe_subscription_for_user(u, providerOk) ==
    IF ~providerOk \/ ~ProductIdConfigured
    THEN /\ resp' = Response("create_for_user", HTTP_500, NoDetail)
         /\ UNCHANGED <<users, subs, now, nextSid, delivered, tz, restVars>>
    ELSE /\ Len(subs) < MaxSubs
         /\ subs' = Append(subs, NewSubscriptionDoc(u, nextSid, now))
         /\ nextSid' = nextSid + 1
         /\ resp' = Response("create_for_user", HTTP_200, "activated")
         /\ UNCHANGED <<users, now, delivered, tz, restVars>>

\* a reactivation that writes the status before it calls the provider
reactivate_cancelled_subscription_UpdatesFirst(op, i, providerOk) ==
    IF subs[i].stripe_subscription_id # NoSid /\ ~providerOk
    THEN /\ subs' = SetStatus(subs, i, "active")
         /\ resp' = Response(op, HTTP_500, NoDetail)
         /\ UNCHANGED <<users, now, nextSid, delivered, tz, restVars>>
    ELSE /\ subs' = SetStatus(subs, i, "active")
         /\ resp' = Response(op, HTTP_200, "reactivated")
         /\ UNCHANGED <<users, now, nextSid, delivered, tz, restVars>>

\* reactivate_cancelled_subscription on document i, called inside the try
\* block of endpoint op; providerOk is FALSE when
\* stripe.Subscription.modify(cancel_at_period_end=False) raises
reactivate_cancelled_subscription(op, i, providerOk) ==
    IF subs[i].stripe_subscription_id # NoSid /\ ~providerOk
    THEN /\ resp' = Response(op, HTTP_500, NoDetail)
         /\ UNCHANGED <<users, subs, now, nextSid, delivered, tz, restVars>>
    ELSE /\ subs' = SetStatus(subs, i, "active")
         /\ resp' = Response(op, HTTP_200, "reactivated")
         /\ UNCHANGED <<users, now, nextSid, delivered, tz, restVars>>

\* renew-subscription without its reactivation branch: a cancelled record
\* within its period is renewed like an expired one
renew_subscription_NoReactivation(u, providerOk) ==
    LET idx == UserSubs(subs, u)
        existing == IF idx = {} THEN 0 ELSE MostRecentOf(subs, idx)
    IN  IF existing # 0 /\ subs[existing].ends_at > now
           /\ subs[existing].status = "active"
        THEN /\ resp' = Response("renew", HTTP_400, NoDetail)
             /\ UNCHANGED <<users, subs, now, nextSid, delivered, tz, restVars>>
        ELSE process_stripe_renewal(u, providerOk)

\* POST /v1/payments/renew-subscription
renew_subscription(u, providerOk) ==
    LET idx == UserSubs(subs, u)
        existing == IF idx = {} THEN 0 ELSE MostRecentOf(subs, idx)
    IN  IF existing # 0 /\ subs[existing].ends_at > now
           /\ subs[existing].status = "cancelled"
        THEN reactivate_cancelled_subscription("renew", existing, providerOk)
        ELSE IF existing # 0 /\ subs[existing].ends_at > now
                /\ subs[existing].status = "active"
        THEN /\ resp' = Response("renew", HTTP_400, NoDetail)
             /\ UNCHANGED <<users, subs, now, nextSid, delivered, tz, restVars>>
        ELSE process_stripe_renewal(u, providerOk)

\* POST /v1/payments/create-subscription-for-user.  find_one without a sort
\* returns any one of the matching documents.
create_subscription_for_user(u, providerOk) ==
    LET idx == UserSubsWithStatus(subs, u, "active")
    IN  IF idx = {}
        THEN process_stripe_subscription_for_user(u, providerOk)
        ELSE \E existing \in idx :
                IF subs[existing].ends_at > now
                THEN /\ resp' = Response("create_for_user", HTTP_400, NoDetail)
                     /\ UNCHANGED <<users, subs, now, nextSid, delivered, tz, restVars>>
                ELSE process_stripe_subscription_for_user(u, providerOk)

\* the message of cancel_subscription: the default one when the record has
\* no provider subscription id (the provider is not called), and otherwise
\* by what the provider answered
CancelMessage(sid, providerStatus) ==
    IF sid = NoSid THEN "cancelled_successfully"
    ELSE IF providerStatus = "active" THEN "at_period_end"
    ELSE IF providerStatus = "canceled" THEN "already_cancelled"
    ELSE IF providerStatus = "error" THEN "contact_support"
    ELSE "marked_cancelled"

\* cancel-subscription whose provider error is not caught by the inner
\* except: the outer one answers 500 before the update
cancel_subscription_FailsOnProviderError(u, providerStatus) ==
    LET idx == UserSubsWithStatus(subs, u, "active")
    IN  IF idx = {}
        THEN /\ resp' = Response("cancel", HTTP_404, NoDetail)
             /\ UNCHANGED <<users, subs, now, nextSid, delivered, tz, restVars>>
        ELSE \E doc \in idx :
                IF subs[doc].stripe_subscription_id # NoSid
                   /\ providerStatus = "error"
                THEN /\ resp' = Response("cancel", HTTP_500, NoDetail)
                     /\ UNCHANGED <<users, subs, now, nextSid, delivered, tz, restVars>>
                ELSE /\ subs' = SetStatus(subs, doc, "cancelled")
                     /\ resp' = Response("cancel", HTTP_200,
                                         CancelMessage(subs[doc].stripe_subscription_id,
                                                       providerStatus))
                     /\ UNCHANGED <<users, now, nextSid, delivered, tz, restVars>>

\* POST /v1/payments/cancel-subscription.  find_one without a sort returns
\* any one of the matching documents.  The provider is asked only when the
\* document has a provider subscription id; a StripeError is caught and the
\* update is made all the same.
cancel_subscription(u, providerStatus) ==
    LET idx == UserSubsWithStatus(subs, u, "active")
    IN  IF idx = {}
        THEN /\ resp' = Response("cancel", HTTP_404, NoDetail)
             /\ UNCHANGED <<users, subs, now, nextSid, delivered, tz, restVars>>
        ELSE \E doc \in idx :
                /\ subs' = SetStatus(subs, doc, "cancelled")
                /\ resp' = Response("cancel", HTTP_200,
                                    CancelMessage(subs[doc].stripe_subscription_id,
                                                  providerStatus))
                /\ UNCHANGED <<users, now, nextSid, delivered, tz, restVars>>

\* POST /v1/payments/reactivate-subscription
reactivate_subscription(u, providerOk) ==
    LET idx == UserSubsWithStatus(subs, u, "cancelled")
    IN  IF idx = {}
        THEN /\ resp' = Response("reactivate", HTTP_404, NoDetail)
             /\ UNCHANGED <<users, subs, now, nextSid, delivered, tz, restVars>>
        ELSE LET existing == MostRecentOf(subs, idx)
             IN  IF subs[existing].ends_at <= now
                 THEN /\ resp' = Response("reactivate", HTTP_400, NoDetail)
                      /\ UNCHANGED <<users, subs, now, nextSid, delivered, tz, restVars>>
                 ELSE reactivate_cancelled_subscription("reactivate", existing,
                                                        providerOk)

\* the subject of the token login_user signs for user u: user.email of the
\* UserInDB built from the stored document, the normalized address
LoginSubject(u) == NormalizeEmail(users[u].email)

\* the status of a request of user u, with the token of u's login, to an
\* endpoint that Depends on get_current_subscribed_user.  A stored email that
\* is no EmailStr makes get_user_by_email raise, in login and in
\* get_current_user alike, and nothing catches it.  get_current_user looks
\* the token's subject up as it is: it finds no user, or the user whose
\* stored email is that text, who is the one the access check is made for.
GatedStatus(u) ==
    IF ~IsEmailStr(users[u].email) THEN HTTP_500
    ELSE IF get_user_by_email(LoginSubject(u)) = 0 THEN HTTP_401
    ELSE IF get_current_subscribed_user(users, subs, now,
                                        get_user_by_email(LoginSubject(u)))
    THEN HTTP_200
    ELSE HTTP_403

\* a request to an endpoint that Depends on get_current_subscribed_user
GatedRequest(u) ==
    /\ resp' = Response("access", GatedStatus(u), NoDetail)
    /\ UNCHANGED <<users, subs, now, nextSid, delivered, tz, restVars>>

(* ------------------------------ webhooks ------------------------------ *)
\* datetime.fromtimestamp(ts) of a provider timestamp: the naive datetime of
\* the server's LOCAL time, stored next to and compared with the naive UTC
\* datetimes of utcnow().  tz is the number of days by which the local date
\* of an instant differs from its UTC date on this server.
FromTimestamp(ts) == ts + tz

\* the lookup chain of handle_subscription_payment_succeeded: the invoice's
\* own subscription field, then its line items, then the customer's
\* subscriptions at the provider, then the invoice fetched again
ResolveSubscriptionId(invoice) ==
    IF invoice.subscription # NoSid THEN invoice.subscription
    ELSE IF invoice.lines # NoSid THEN invoice.lines
    ELSE IF invoice.customer # NoSid THEN invoice.customer
    ELSE invoice.retrieved

\* the payment-succeeded handler adding the period to the record's previous
\* ends_at instead of to the handling time
handle_subscription_payment_succeeded_FromPreviousEnd(s, sid, email, t) ==
    IF sid = NoSid
    THEN s
    ELSE IF SubsWithSid(s, sid) # {}
    THEN LET doc == CHOOSE k \in SubsWithSid(s, sid) :
                        \A j \in SubsWithSid(s, sid) : k <= j
         IN  SetStatusEnd(s, doc, "active", s[doc].ends_at + PeriodDays)
    ELSE Append(s, SynthesizedDoc(email, sid, t))

\* handle_subscription_payment_succeeded once the subscription id is known;
\* email is what the customer lookup at the provider yields
handle_subscription_payment_succeeded(s, sid, email, t) ==
    IF sid = NoSid
    THEN s
    ELSE IF SubsWithSid(s, sid) # {}
    THEN LET doc == CHOOSE k \in SubsWithSid(s, sid) :
                        \A j \in SubsWithSid(s, sid) : k <= j
         IN  SetStatusEnd(s, doc, "active", t + PeriodDays)
    ELSE Append(s, SynthesizedDoc(email, sid, t))

\* a payment-failed handler that marks the record inactive and leaves its
\* period as it was
handle_subscription_payment_failed_KeepsPeriod(s, sid, t) ==
    IF sid = NoSid \/ SubsWithSid(s, sid) = {}
    THEN s
    ELSE LET doc == CHOOSE k \in SubsWithSid(s, sid) :
                        \A j \in SubsWithSid(s, sid) : k <= j
         IN  SetStatus(s, doc, "inactive")

\* handle_subscription_payment_failed
handle_subscription_payment_failed(s, sid, t) ==
    IF sid = NoSid \/ SubsWithSid(s, sid) = {}
    THEN s
    ELSE LET doc == CHOOSE k \in SubsWithSid(s, sid) :
                        \A j \in SubsWithSid(s, sid) : k <= j
         IN  SetStatusEnd(s, doc, "inactive", t)

\* handle_subscription_cancelled, for a payload whose canceled_at is a
\* timestamp
handle_subscription_cancelled(s, sid, canceled_at) ==
    IF sid = NoSid
    THEN s
    ELSE UpdateOneBySid(s, sid, "cancelled", FromTimestamp(canceled_at))

\* handle_subscription_updated, for a payload whose cancel_at is a timestamp
handle_subscription_updated(s, sid, cancel_at) ==
    IF sid = NoSid
    THEN s
    ELSE UpdateOneBySid(s, sid, "cancelled", FromTimestamp(cancel_at))

\* TRUE when the handler of this event raises: datetime.fromtimestamp(None)
\* is a TypeError, subscription['canceled_at'] of a payload without the key
\* is a KeyError; nothing in stripe_webhook catches either
HandlerRaises(ev) ==
    /\ ev.type \in {"customer.subscription.deleted", "customer.subscription.updated"}
    /\ ev.sid # NoSid
    /\ ev.ts = NoTs

\* the store after the dispatch of stripe_webhook on a signature-valid event
Dispatch(s, ev, t) ==
    IF HandlerRaises(ev) THEN s
    ELSE IF ev.type = "payment_intent.created"
    THEN handle_subscription_payment_succeeded(s, ev.sid, ev.email, t)
    ELSE IF ev.type = "invoice.payment_failed"
    THEN handle_subscription_payment_failed(s, ev.sid, t)
    ELSE IF ev.type = "customer.subscription.deleted"
    THEN handle_subscription_cancelled(s, ev.sid, ev.ts)
    ELSE IF ev.type = "customer.subscription.updated"
    THEN handle_subscription_updated(s, ev.sid, ev.ts)
    ELSE s

\* the response of stripe_webhook to a signature-valid event
WebhookStatus(ev) == IF HandlerRaises(ev) THEN HTTP_500 ELSE HTTP_200

\* POST /v1/payments/webhook with a payload whose signature verifies
stripe_webhook(ev) ==
    /\ delivered < MaxDeliveries
    /\ Len(Dispatch(subs, ev, now)) <= MaxSubs
    /\ subs' = Dispatch(subs, ev, now)
    /\ delivered' = delivered + 1
    /\ resp' = Exchange("webhook", WebhookStatus(ev), ev.type, ev)
    /\ UNCHANGED <<users, now, nextSid, tz, restVars>>

\* the provider delivers the event of the last request once more (its retry),
\* before any other request is handled
stripe_webhook_redelivery ==
    /\ resp.op = "webhook"
    /\ Len(Dispatch(subs, resp.event, now)) <= MaxSubs
    /\ subs' = Dispatch(subs, resp.event, now)
    /\ resp' = Exchange("webhook_redelivery", WebhookStatus(resp.event),
                        resp.event.type, resp.event)
    /\ UNCHANGED <<users, now, nextSid, delivered, tz, restVars>>

\* POST /v1/payments/webhook with a payload construct_event rejects
stripe_webhook_invalid ==
    /\ resp' = Response("webhook_invalid", HTTP_400, NoDetail)
    /\ UNCHANGED <<users, subs, now, nextSid, delivered, tz, restVars>>

\* the provider subscription ids an event can name
EventSids == (0..(nextSid - 1)) \cup ExternalSids

\* the invoice payloads: no place names the subscription, or exactly one does
NoInvoiceSub ==
    [subscription |-> NoSid, lines |-> NoSid, customer |-> NoSid, retrieved |-> NoSid]

InvoiceShapes ==
    {NoInvoiceSub}
    \cup {[NoInvoiceSub EXCEPT ![f] = sid] :
            f \in {"subscription", "lines", "customer", "retrieved"},
            sid \in EventSids \ {NoSid}}

\* the payloads of the provider's events, reduced to what the handlers read
Events ==
    {[type |-> "payment_intent.created", sid |-> ResolveSubscriptionId(inv),
      ts |-> NoTs, email |-> e] :
        inv \in InvoiceShapes, e \in {"a@x", NoEmail}}
    \cup {[type |-> "invoice.payment_failed", sid |-> inv.subscription,
           ts |-> NoTs, email |-> NoEmail] : inv \in InvoiceShapes}
    \cup {[type |-> ty, sid |-> sid, ts |-> ts, email |-> NoEmail] :
            ty \in {"customer.subscription.deleted", "customer.subscription.updated"},
            sid \in EventSids, ts \in {NoTs, now, now + PeriodDays}}
    \cup {[type |-> "invoice.payment_succeeded", sid |-> sid, ts |-> NoTs,
           email |-> NoEmail] : sid \in EventSids}

Next ==
    \/ Tick
    \/ \E e \in Emails, ok \in BOOLEAN : create_subscription(e, ok)
    \/ \E u \in UserIds, ok \in BOOLEAN : renew_subscription(u, ok)
    \/ \E u \in UserIds, ok \in BOOLEAN : create_subscription_for_user(u, ok)
    \/ \E u \in UserIds, p \in ProviderStatuses : cancel_subscription(u, p)
    \/ \E u \in UserIds, ok \in BOOLEAN : reactivate_subscription(u, ok)
    \/ \E u \in UserIds : GatedRequest(u)
    \/ \E ev \in Events : stripe_webhook(ev)
    \/ stripe_webhook_redelivery
    \/ stripe_webhook_invalid

Spec == Init /\ [][Next]_vars

(* --------------- the same backend in any server time zone ------------- *)
\* the day shifts of local time against UTC: none (TZ is UTC), or the local
\* date is the next day (east of UTC, late in the UTC day), or the previous
\* day (west of UTC, early in the UTC day)
TzShifts == {-1, 0, 1}

\* as Init, with the server's time zone left open
InitLocalTime ==
    /\ InitSubscriptions
    /\ tz \in TzShifts
    /\ IdleListings
    /\ IdleFavorites
    /\ IdlePasswords
    /\ IdleLater

\* subscribing, the provider's events, the access check and the clock
NextLocalTime ==
    \/ Tick
    \/ \E e \in Emails, ok \in BOOLEAN : create_subscription(e, ok)
    \/ \E u \in UserIds : GatedRequest(u)
    \/ \E ev \in Events : stripe_webhook(ev)

SpecLocalTime == InitLocalTime /\ [][NextLocalTime]_vars

(* ------------------------ listing query: texts ------------------------ *)
\* A text field of a listing is the sequence of its characters.
DigitChars == <<"0", "1", "2", "3", "4", "5", "6", "7", "8", "9">>

\* \d and [0-9]
IsDigit(c) == \E n \in 1..10 : DigitChars[n] = c

DigitVal(c) == (CHOOSE n \in 1..10 : DigitChars[n] = c) - 1

\* the characters of the class \s: space, tab, line feed, carriage return,
\* form feed and vertical tab ("\\v" stands for the one character U+000B)
SpaceChars == {" ", "\t", "\n", "\r", "\f", "\\v"}

\* \s
IsSpace(c) == c \in SpaceChars

\* a field the document does not have ($ifNull's null)
NullText == <<"null">>

\* {"$ifNull": ["$field", ""]}
IfNull(txt) == IF txt = NullText THEN <<>> ELSE txt

\* the value a computed field has when nothing was extracted (None)
NullNum == -1

\* the last index of the run of digits that starts at index i of txt
RunEnd(txt, i) ==
    CHOOSE j \in i..Len(txt) :
        /\ \A k \in i..j : IsDigit(txt[k])
        /\ (j = Len(txt) \/ ~IsDigit(txt[j + 1]))

\* $toInt of the digits txt[i..j]
RECURSIVE ToInt(_, _, _)
ToInt(txt, i, j) ==
    IF j < i THEN 0 ELSE ToInt(txt, i, j - 1) * 10 + DigitVal(txt[j])

\* the values of the digits txt[i..j]
Digits(txt, i, j) == [k \in 1..(j - i + 1) |-> DigitVal(txt[i + k - 1])]

IsZero(ds) == \A k \in 1..Len(ds) : ds[k] = 0

\* the index of the first digit of ds that is not 0
FirstNonZero(ds) ==
    CHOOSE k \in 1..Len(ds) : ds[k] # 0 /\ \A m \in 1..(k - 1) : ds[m] = 0

\* a sequence of digits without its leading zeros
StripZeros(ds) ==
    IF IsZero(ds) THEN <<>> ELSE SubSeq(ds, FirstNonZero(ds), Len(ds))

\* the decimal digits of the integer n >= 0, none for 0
RECURSIVE IntDigits(_)
IntDigits(n) == IF n = 0 THEN <<>> ELSE Append(IntDigits(n \div 10), n % 10)

\* a comes before b, for two digit sequences of one length
DigitsLess(a, b) ==
    \E k \in 1..Len(a) : a[k] < b[k] /\ \A m \in 1..(k - 1) : a[m] = b[m]

\* a < b for two integers given by their digits, without leading zeros
NatLess(a, b) == Len(a) < Len(b) \/ (Len(a) = Len(b) /\ DigitsLess(a, b))

\* ds with zeros behind it up to length n
PadRight(ds, n) == [k \in 1..n |-> IF k <= Len(ds) THEN ds[k] ELSE 0]

\* 0.a <= 0.b for two fractions given by their digits
FracLeq(a, b) ==
    LET n == IF Len(a) >= Len(b) THEN Len(a) ELSE Len(b)
    IN  ~DigitsLess(PadRight(b, n), PadRight(a, n))

\* the digits of 1 - 0.ds, for a fraction that is not zero
Complement(ds) ==
    LET p == CHOOSE k \in 1..Len(ds) :
                  ds[k] # 0 /\ \A m \in (k + 1)..Len(ds) : ds[m] = 0
    IN  [k \in 1..Len(ds) |->
            IF k < p THEN 9 - ds[k] ELSE IF k = p THEN 10 - ds[k] ELSE 0]

\* the digits of half of 0.ds, one more than ds has: the digit at k is half
\* of ds[k] and of the 10 an odd ds[k - 1] leaves over
Half(ds) ==
    SubSeq([k \in 1..(Len(ds) + 1) |->
               ((IF k = 1 THEN 0 ELSE ds[k - 1] % 2) * 10
                  + (IF k <= Len(ds) THEN ds[k] ELSE 0)) \div 2],
           1, Len(ds) + 1)

\* 0.ds halved n times
RECURSIVE Halves(_, _)
Halves(ds, n) == IF n = 0 THEN ds ELSE Half(Halves(ds, n - 1))

\* the digits of 2^-16, 2^-32 and 2^-48
PowHalf16 == Halves(<<5>>, 15)
PowHalf32 == Halves(PowHalf16, 16)
PowHalf48 == Halves(PowHalf32, 16)

\* the m digits of the fraction 2^-m, for m >= 1
PowHalf(m) ==
    IF m <= 16 THEN Halves(<<5>>, m - 1)
    ELSE IF m <= 32 THEN Halves(PowHalf16, m - 16)
    ELSE IF m <= 48 THEN Halves(PowHalf32, m - 32)
    ELSE Halves(PowHalf48, m - 48)

\* 0.ds <= 2^-m.  2^-m is below 10^-(3m/10), so a fraction with a digit other
\* than 0 among its first 3m/10 digits is above it.
AtMostPowHalf(ds, m) ==
    /\ \A k \in 1..((3 * m) \div 10) : k <= Len(ds) => ds[k] = 0
    /\ FracLeq(ds, PowHalf(m))

\* The least double above 0 is 2^-1074.  Half of it, 2^-1075, is 5^1075 over
\* 10^1075: 2.4703...e-324, a fraction of 1075 digits, 323 zeros and then the
\* 752 digits of 5^1075.  LeastHalfPlace is the place of the first of them.
LeastHalfPlace == 324
LeastHalfDigits ==
    <<2, 4, 7, 0, 3, 2, 8, 2, 2, 9, 2, 0, 6, 2, 3, 2, 7, 2, 0, 8, 8, 2, 8, 4, 3,
      9, 6, 4, 3, 4, 1, 1, 0, 6, 8, 6, 1, 8, 2, 5, 2, 9, 9, 0, 1, 3, 0, 7, 1, 6,
      2, 3, 8, 2, 2, 1, 2, 7, 9, 2, 8, 4, 1, 2, 5, 0, 3, 3, 7, 7, 5, 3, 6, 3, 5,
      1, 0, 4, 3, 7, 5, 9, 3, 2, 6, 4, 9, 9, 1, 8, 1, 8, 0, 8, 1, 7, 9, 9, 6, 1,
      8, 9, 8, 9, 8, 2, 8, 2, 3, 4, 7, 7, 2, 2, 8, 5, 8, 8, 6, 5, 4, 6, 3, 3, 2,
      8, 3, 5, 5, 1, 7, 7, 9, 6, 9, 8, 9, 8, 1, 9, 9, 3, 8, 7, 3, 9, 8, 0, 0, 5,
      3, 9, 0, 9, 3, 9, 0, 6, 3, 1, 5, 0, 3, 5, 6, 5, 9, 5, 1, 5, 5, 7, 0, 2, 2,
      6, 3, 9, 2, 2, 9, 0, 8, 5, 8, 3, 9, 2, 4, 4, 9, 1, 0, 5, 1, 8, 4, 4, 3, 5,
      9, 3, 1, 8, 0, 2, 8, 4, 9, 9, 3, 6, 5, 3, 6, 1, 5, 2, 5, 0, 0, 3, 1, 9, 3,
      7, 0, 4, 5, 7, 6, 7, 8, 2, 4, 9, 2, 1, 9, 3, 6, 5, 6, 2, 3, 6, 6, 9, 8, 6,
      3, 6, 5, 8, 4, 8, 0, 7, 5, 7, 0, 0, 1, 5, 8, 5, 7, 6, 9, 2, 6, 9, 9, 0, 3,
      7, 0, 6, 3, 1, 1, 9, 2, 8, 2, 7, 9, 5, 5, 8, 5, 5, 1, 3, 3, 2, 9, 2, 7, 8,
      3, 4, 3, 3, 8, 4, 0, 9, 3, 5, 1, 9, 7, 8, 0, 1, 5, 5, 3, 1, 2, 4, 6, 5, 9,
      7, 2, 6, 3, 5, 7, 9, 5, 7, 4, 6, 2, 2, 7, 6, 6, 4, 6, 5, 2, 7, 2, 8, 2, 7,
      2, 2, 0, 0, 5, 6, 3, 7, 4, 0, 0, 6, 4, 8, 5, 4, 9, 9, 9, 7, 7, 0, 9, 6, 5,
      9, 9, 4, 7, 0, 4, 5, 4, 0, 2, 0, 8, 2, 8, 1, 6, 6, 2, 2, 6, 2, 3, 7, 8, 5,
      7, 3, 9, 3, 4, 5, 0, 7, 3, 6, 3, 3, 9, 0, 0, 7, 9, 6, 7, 7, 6, 1, 9, 3, 0,
      5, 7, 7, 5, 0, 6, 7, 4, 0, 1, 7, 6, 3, 2, 4, 6, 7, 3, 6, 0, 0, 9, 6, 8, 9,
      5, 1, 3, 4, 0, 5, 3, 5, 5, 3, 7, 4, 5, 8, 5, 1, 6, 6, 6, 1, 1, 3, 4, 2, 2,
      3, 7, 6, 6, 6, 7, 8, 6, 0, 4, 1, 6, 2, 1, 5, 9, 6, 8, 0, 4, 6, 1, 9, 1, 4,
      4, 6, 7, 2, 9, 1, 8, 4, 0, 3, 0, 0, 5, 3, 0, 0, 5, 7, 5, 3, 0, 8, 4, 9, 0,
      4, 8, 7, 6, 5, 3, 9, 1, 7, 1, 1, 3, 8, 6, 5, 9, 1, 6, 4, 6, 2, 3, 9, 5, 2,
      4, 9, 1, 2, 6, 2, 3, 6, 5, 3, 8, 8, 1, 8, 7, 9, 6, 3, 6, 2, 3, 9, 3, 7, 3,
      2, 8, 0, 4, 2, 3, 8, 9, 1, 0, 1, 8, 6, 7, 2, 3, 4, 8, 4, 9, 7, 6, 6, 8, 2,
      3, 5, 0, 8, 9, 8, 6, 3, 3, 8, 8, 5, 8, 7, 9, 2, 5, 6, 2, 8, 3, 0, 2, 7, 5,
      5, 9, 9, 5, 6, 5, 7, 5, 2, 4, 4, 5, 5, 5, 0, 7, 2, 5, 5, 1, 8, 9, 3, 1, 3,
      6, 9, 0, 8, 3, 6, 2, 5, 4, 7, 7, 9, 1, 8, 6, 9, 4, 8, 6, 6, 7, 9, 9, 4, 9,
      6, 8, 3, 2, 4, 0, 4, 9, 7, 0, 5, 8, 2, 1, 0, 2, 8, 5, 1, 3, 1, 8, 5, 4, 5,
      1, 3, 9, 6, 2, 1, 3, 8, 3, 7, 7, 2, 2, 8, 2, 6, 1, 4, 5, 4, 3, 7, 6, 9, 3,
      4, 1, 2, 5, 3, 2, 0, 9, 8, 5, 9, 1, 3, 2, 7, 6, 6, 7, 2, 3, 6, 3, 2, 8, 1,
      2, 5>>

\* 0.ds <= 2^-1075 for a fraction that is not zero: such a decimal is no
\* nearer to 2^-1074 than to 0, and the double nearest to it is 0.0 (of the
\* two, 0.0 has the even significand, so the decimal half way goes to it)
AtMostLeastHalf(ds) ==
    \/ FirstNonZero(ds) > LeastHalfPlace
    \/ /\ FirstNonZero(ds) = LeastHalfPlace
       /\ FracLeq(SubSeq(ds, LeastHalfPlace, Len(ds)), LeastHalfDigits)

\* e with 2^e <= n < 2^(e+1), for n >= 1
RECURSIVE Log2(_)
Log2(n) == IF n < 2 THEN 0 ELSE 1 + Log2(n \div 2)

\* a double has a significand of 53 bits
SignificandBits == 53

\* the value of a computed field that is None
NullDouble == [null |-> TRUE, whole |-> <<>>, frac |-> <<>>]

\* $regexFind with ([0-9]+(?:\.[0-9]+)?) and $toDouble of the match: the
\* first number of the text, NullDouble when the text has no digit.  The
\* double is held as the digits of the match before and after the point; it
\* is the double nearest to that decimal.
FirstNumber(txt) ==
    IF \A i \in 1..Len(txt) : ~IsDigit(txt[i])
    THEN NullDouble
    ELSE LET i == CHOOSE k \in 1..Len(txt) :
                     IsDigit(txt[k]) /\ \A m \in 1..(k - 1) : ~IsDigit(txt[m])
             j == RunEnd(txt, i)
         IN  [null |-> FALSE,
              whole |-> StripZeros(Digits(txt, i, j)),
              frac |-> IF j + 2 <= Len(txt) /\ txt[j + 1] = "."
                          /\ IsDigit(txt[j + 2])
                       THEN Digits(txt, j + 2, RunEnd(txt, j + 2))
                       ELSE <<>>]

\* x <= bound for the double x and an integer bound below 2^52.  Rounding to
\* the nearest double keeps the order, so x is compared as its decimal is,
\* but for a decimal above the bound that is rounded down to it: one that is
\* no more than half the distance to the next double away (a tie goes to the
\* bound, whose significand is even).  The doubles from 2^e up to 2^(e+1)
\* lie 2^(e-52) apart.
DoubleLte(x, bound) ==
    IF bound < 0 THEN FALSE
    ELSE IF NatLess(x.whole, IntDigits(bound)) THEN TRUE
    ELSE IF x.whole # IntDigits(bound) THEN FALSE
    ELSE IF IsZero(x.frac) THEN TRUE
    ELSE IF bound = 0 THEN AtMostLeastHalf(x.frac)
    ELSE AtMostPowHalf(x.frac, SignificandBits - Log2(bound))

\* x >= bound for the double x and an integer bound below 2^52: as the
\* decimals compare, but for a decimal below the bound that is rounded up to
\* it.  Below a power of two the doubles lie twice as close.
DoubleGte(x, bound) ==
    IF bound <= 0 THEN TRUE
    ELSE IF ~NatLess(x.whole, IntDigits(bound)) THEN TRUE
    ELSE IF x.whole # IntDigits(bound - 1) THEN FALSE
    ELSE /\ ~IsZero(x.frac)
         /\ AtMostPowHalf(Complement(x.frac),
                          IF bound = 2^Log2(bound)
                          THEN SignificandBits + 1 - Log2(bound)
                          ELSE SignificandBits - Log2(bound))

\* building_area_numeric and land_area_numeric of $addFields
AreaNumeric(field) == FirstNumber(IfNull(field))

\* the start indexes of the matches of (\d{4}): four digits in a row
FourDigitStarts(txt) ==
    {i \in 1..(Len(txt) - 3) : \A k \in i..(i + 3) : IsDigit(txt[k])}

\* TRUE when years? matches at index i, after \s*
YearWordAt(txt, i) ==
    \E k \in i..Len(txt) :
        /\ \A m \in i..(k - 1) : IsSpace(txt[m])
        /\ k + 3 <= Len(txt)
        /\ txt[k] = "y" /\ txt[k + 1] = "e" /\ txt[k + 2] = "a" /\ txt[k + 3] = "r"

\* the start indexes of the matches of (\d+)\s*years?; \d+ is greedy and
\* what follows it is no digit, so a match takes the digits up to the end of
\* their run
YearsStarts(txt) ==
    {i \in 1..Len(txt) : IsDigit(txt[i]) /\ YearWordAt(txt, RunEnd(txt, i) + 1)}

Least(S) == CHOOSE i \in S : \A j \in S : i <= j

\* {"$year": "$$NOW"}
CurrentYear == 2026

\* construction_year of $addFields
ConstructionYear(field, currentYear) ==
    LET dateStr == IfNull(field)
    IN  IF dateStr = <<>>
        THEN NullNum
        ELSE IF FourDigitStarts(dateStr) # {}
        THEN LET i == Least(FourDigitStarts(dateStr))
             IN  ToInt(dateStr, i, i + 3)
        ELSE IF YearsStarts(dateStr) # {}
        THEN LET i == Least(YearsStarts(dateStr))
             IN  currentYear - ToInt(dateStr, i, RunEnd(dateStr, i))
        ELSE NullNum

(* ------------------------ listing query: store ------------------------ *)
\* The listings the crawlers may have stored.  "Sale Price" is a number, a
\* string or absent; "Building - Area", "Land - Area" and "Building -
\* Construction Date" are texts or absent; createdAt is a day.
ListingPool ==
    <<[id |-> 1, prefecture |-> "Nagano", layout |-> "3LDK",
       price |-> [kind |-> "number", val |-> 500],
       barea |-> <<"8", "5", ".", "0", "0", "1", " ", "m", "2">>,
       larea |-> <<"1", "2", "0">>,
       cdate |-> <<"2", "0", "1", "5">>,
       createdAt |-> 1],
      [id |-> 2, prefecture |-> "Nagano", layout |-> "2DK",
       price |-> [kind |-> "number", val |-> 500],
       barea |-> <<"N", "/", "A">>,
       larea |-> NullText,
       cdate |-> <<"u", "n", "k", "n", "o", "w", "n">>,
       createdAt |-> 2],
      [id |-> 3, prefecture |-> "Chiba", layout |-> "3LDK",
       price |-> [kind |-> "number", val |-> 300],
       barea |-> <<"6", "0">>,
       larea |-> <<"2", "0", "0", ".", "5", " ", "m", "2">>,
       cdate |-> <<"1", "0", "\t", "y", "e", "a", "r", "s">>,
       createdAt |-> 2],
      [id |-> 4, prefecture |-> "Chiba", layout |-> "2DK",
       price |-> [kind |-> "number", val |-> 800],
       barea |-> <<"1", "0", "0">>,
       larea |-> <<"9", "5">>,
       cdate |-> <<"1", "0", " ", "y", "e", "a", "r", "s", " ", "(", "r", "e", "f", " ", "2", "0", "3", "9", "4", ")">>,
       createdAt |-> 3],
      [id |-> 5, prefecture |-> "Nagano", layout |-> "3LDK",
       price |-> [kind |-> "string", val |-> 0],
       barea |-> <<"8", "5", ".", "3", " ", "m", "2">>,
       larea |-> <<"1", "2", "0">>,
       cdate |-> <<"2", "0", "1", "5">>,
       createdAt |-> 4],
      [id |-> 6, prefecture |-> "Nagano", layout |-> "3LDK",
       price |-> [kind |-> "absent", val |-> 0],
       barea |-> <<"8", "5", ".", "3", " ", "m", "2">>,
       larea |-> <<"1", "2", "0">>,
       cdate |-> <<"2", "0", "1", "5">>,
       createdAt |-> 5]>>

\* the most listings the collections hold together, the most collections
MaxListings == 2
MaxCollections == 2

\* the listings of the pool that are placed in collection c, in id order
RECURSIVE Placed(_, _, _)
Placed(place, c, i) ==
    IF i > Len(ListingPool) THEN <<>>
    ELSE IF place[i] = c
    THEN <<ListingPool[i]>> \o Placed(place, c, i + 1)
    ELSE Placed(place, c, i + 1)

\* the stores: n collections, each listing of the pool in one of them or in
\* none
Stores ==
    {[c \in 1..n |-> Placed(place, c, 1)] :
        n \in 0..MaxCollections,
        place \in {f \in [1..Len(ListingPool) -> 0..MaxCollections] :
                     Cardinality({i \in 1..Len(ListingPool) : f[i] # 0})
                        <= MaxListings}}

(* ------------------------ listing query: request ---------------------- *)
\* an integer parameter that was not given (None)
NoBound == -1

\* a string parameter that was not given, or given empty: both are falsy
NoStr == ""

NoFilters ==
    [prefecture |-> NoStr, layout |-> NoStr,
     sale_price_min |-> NoBound, sale_price_max |-> NoBound,
     building_area_min |-> NoBound, building_area_max |-> NoBound,
     land_area_min |-> NoBound, land_area_max |-> NoBound,
     construction_year_min |-> NoBound, construction_year_max |-> NoBound]

\* one filter at a time
SingleFilters ==
    {[NoFilters EXCEPT !.prefecture = "Nagano"],
     [NoFilters EXCEPT !.layout = "3LDK"],
     [NoFilters EXCEPT !.sale_price_min = 500],
     [NoFilters EXCEPT !.sale_price_max = 500],
     [NoFilters EXCEPT !.building_area_min = 85],
     [NoFilters EXCEPT !.building_area_max = 85],
     [NoFilters EXCEPT !.land_area_max = 120],
     [NoFilters EXCEPT !.construction_year_min = 2016],
     [NoFilters EXCEPT !.construction_year_max = 2016]}

\* the fields in which filter f differs from no filter at all
ActiveFields(f) == {k \in DOMAIN NoFilters : f[k] # NoFilters[k]}

\* no filter, one filter, or two filters together
FilterChoices ==
    {NoFilters} \cup SingleFilters
    \cup {[k \in DOMAIN NoFilters |-> IF f[k] # NoFilters[k] THEN f[k] ELSE g[k]] :
            f \in SingleFilters, g \in SingleFilters}

\* sort_by and sort_order: the values the endpoint admits, and others, which
\* get_all_listings_filtered takes as any string
SortChoices ==
    {[sort_by |-> "sale_price", sort_order |-> "asc"],
     [sort_by |-> "sale_price", sort_order |-> "desc"],
     [sort_by |-> "createdAt", sort_order |-> "asc"],
     [sort_by |-> "newest", sort_order |-> "down"]}

\* page and limit as Query(1, ge=1) and Query(20, le=100) admit them
MaxPage == 2
MaxLimit == 2
MinLimit == -1

\* regex="^(createdAt|sale_price)$" and regex="^(asc|desc)$"
SortByPattern == {"createdAt", "sale_price"}
SortOrderPattern == {"asc", "desc"}

\* ge=1 of page and le=100 of limit
PageFloor == 1
LimitCeiling == 100

\* the query parameters pass the validation of the endpoint's signature
ParametersValid(q) ==
    /\ q.sort_by \in SortByPattern
    /\ q.sort_order \in SortOrderPattern
    /\ q.page >= PageFloor
    /\ q.limit <= LimitCeiling

PageChoices == [page : 1..MaxPage, limit : MinLimit..MaxLimit]

\* the arguments of get_all_listings_filtered
ListingQuery(f, srt, pl) ==
    [filters |-> f, sort_by |-> srt.sort_by, sort_order |-> srt.sort_order,
     page |-> pl.page, limit |-> pl.limit]

(* ------------------------ listing query: pipeline --------------------- *)
\* {"$gte": bound} and {"$lte": bound} on a computed field: a null field is
\* in no range (a comparison matches values of the bound's type only)
Gte(x, bound) == x # NullNum /\ x >= bound
Lte(x, bound) == x # NullNum /\ x <= bound

\* the same on a computed field that is a double
GteDouble(x, bound) == ~x.null /\ DoubleGte(x, bound)
LteDouble(x, bound) == ~x.null /\ DoubleLte(x, bound)

\* the first $match stage without the default condition on "Sale Price"
QueryMatch_AnyPrice(d, f) ==
    /\ (f.prefecture # NoStr => d.prefecture = f.prefecture)
    /\ (f.layout # NoStr => d.layout = f.layout)
    /\ (f.sale_price_min # NoBound
          => d.price.kind = "number" /\ d.price.val >= f.sale_price_min)
    /\ (f.sale_price_max # NoBound
          => d.price.kind = "number" /\ d.price.val <= f.sale_price_max)

\* the first $match stage: query, with "Sale Price" always required to exist
\* and to be a number
QueryMatch(d, f) ==
    /\ (f.prefecture # NoStr => d.prefecture = f.prefecture)
    /\ (f.layout # NoStr => d.layout = f.layout)
    /\ d.price.kind = "number"
    /\ (f.sale_price_min # NoBound => d.price.val >= f.sale_price_min)
    /\ (f.sale_price_max # NoBound => d.price.val <= f.sale_price_max)

\* the $match stages that follow $addFields
StagesMatch(d, f) ==
    /\ (f.building_area_min # NoBound
          => GteDouble(AreaNumeric(d.barea), f.building_area_min))
    /\ (f.building_area_max # NoBound
          => LteDouble(AreaNumeric(d.barea), f.building_area_max))
    /\ (f.land_area_min # NoBound
          => GteDouble(AreaNumeric(d.larea), f.land_area_min))
    /\ (f.land_area_max # NoBound
          => LteDouble(AreaNumeric(d.larea), f.land_area_max))
    /\ (f.construction_year_min # NoBound
          => Gte(ConstructionYear(d.cdate, CurrentYear), f.construction_year_min))
    /\ (f.construction_year_max # NoBound
          => Lte(ConstructionYear(d.cdate, CurrentYear), f.construction_year_max))

\* pipeline, respectively union_pipeline, run on one collection
CollectionPipeline(c, f) ==
    SelectSeq(c, LAMBDA d : QueryMatch(d, f) /\ StagesMatch(d, f))

\* the base pipeline followed by $unionWith for every other collection
RECURSIVE UnionWith(_, _, _)
UnionWith(cs, f, n) ==
    IF n = 0 THEN <<>>
    ELSE UnionWith(cs, f, n - 1) \o CollectionPipeline(cs[n], f)

\* sort_field and sort_direction
SortKey(d, q) == IF q.sort_by = "sale_price" THEN d.price.val ELSE d.createdAt

Ascending(q) == q.sort_order = "asc"

\* seq is in the order of {"$sort": {sort_field: sort_direction}}
InSortOrder(seq, q) ==
    \A i, j \in 1..Len(seq) :
        i < j => IF Ascending(q)
                 THEN SortKey(seq[i], q) <= SortKey(seq[j], q)
                 ELSE SortKey(seq[i], q) >= SortKey(seq[j], q)

\* the outputs $sort may produce for the input seq: the order of documents
\* with equal keys is not determined
SortOutputs(seq, q) ==
    LET n == Len(seq)
        perms == {p \in [1..n -> 1..n] : \A i, j \in 1..n : p[i] = p[j] => i = j}
    IN  {s \in {[i \in 1..n |-> seq[p[i]]] : p \in perms} : InSortOrder(s, q)}

\* {"$skip": skip}, {"$limit": limit}
SkipLimit(seq, skip, limit) ==
    IF skip >= Len(seq) THEN <<>>
    ELSE SubSeq(seq, skip + 1, IF skip + limit <= Len(seq) THEN skip + limit ELSE Len(seq))

\* a page cut from every collection by itself and the cuts joined
RECURSIVE PagePerCollection(_, _, _)
PagePerCollection(cs, q, n) ==
    IF n = 0 THEN <<>>
    ELSE PagePerCollection(cs, q, n - 1)
           \o SkipLimit(CHOOSE s \in SortOutputs(CollectionPipeline(cs[n], q.filters), q) : TRUE,
                        (q.page - 1) * q.limit, q.limit)

\* math.ceil(a / b) for b > 0
Ceil(a, b) == (a + b - 1) \div b

\* the aggregation server rejects a $limit that is not positive and a $skip
\* that is negative; aggregate() raises
AggregateRaises(q) == q.limit <= 0 \/ (q.page - 1) * q.limit < 0

ListingResponse(st, q, results, count, pages) ==
    [status |-> st, q |-> q, results |-> results, total_count |-> count,
     total_pages |-> pages, current_page |-> q.page]

\* the query with $sort, $skip and $limit inside each collection's pipeline
get_all_listings_filtered_PerCollection(cs, q, sorted) ==
    IF Len(cs) = 0
    THEN ListingResponse("ok", q, <<>>, 0, 0)
    ELSE IF AggregateRaises(q)
    THEN ListingResponse("error", q, <<>>, 0, 0)
    ELSE ListingResponse("ok", q,
                         PagePerCollection(cs, q, Len(cs)),
                         Len(UnionWith(cs, q.filters, Len(cs))),
                         Ceil(Len(UnionWith(cs, q.filters, Len(cs))), q.limit))

\* get_all_listings_filtered, given the output of $sort
get_all_listings_filtered(cs, q, sorted) ==
    IF Len(cs) = 0
    THEN ListingResponse("ok", q, <<>>, 0, 0)
    ELSE IF AggregateRaises(q)
    THEN ListingResponse("error", q, <<>>, 0, 0)
    ELSE ListingResponse("ok", q,
                         SkipLimit(sorted, (q.page - 1) * q.limit, q.limit),
                         Len(UnionWith(cs, q.filters, Len(cs))),
                         Ceil(Len(UnionWith(cs, q.filters, Len(cs))), q.limit))

\* get_all_listings_filtered is called with the arguments q
ListingsFiltered(q) ==
    /\ \E sorted \in SortOutputs(UnionWith(colls, q.filters, Len(colls)), q) :
          lres' = get_all_listings_filtered(colls, q, sorted)
    /\ UNCHANGED <<vars, colls, favVars, pwVars, laterVars>>

\* GET /v1/listings/listings, for a caller the access check admits.  Query
\* parameters that do not pass the validation are answered 422 and
\* get_all_listings_filtered is not called.
get_listings(q) ==
    IF ParametersValid(q)
    THEN ListingsFiltered(q)
    ELSE /\ lres' = ListingResponse("unprocessable", q, <<>>, 0, 0)
         /\ UNCHANGED <<vars, colls, favVars, pwVars, laterVars>>

\* the crawlers have filled the collections; no request has been made
InitListings ==
    /\ InitSubscriptions
    /\ tz = 0
    /\ colls \in Stores
    /\ lres = NoListingResponse
    /\ IdleFavorites
    /\ IdlePasswords
    /\ IdleLater

\* one request is answered, or get_all_listings_filtered is called once by
\* itself: the endpoint keeps no state between requests
NextListings ==
    /\ lres = NoListingResponse
    /\ \E f \in FilterChoices, srt \in SortChoices, pl \in PageChoices :
          \/ get_listings(ListingQuery(f, srt, pl))
          \/ ListingsFiltered(ListingQuery(f, srt, pl))

SpecListings == InitListings /\ [][NextListings]_listingVars

(* ------------------------------ favorites ----------------------------- *)
\* A listing id as a request carries it: the UUID it spells (0 when the text
\* spells none), the spelling (uuid.UUID reads lower-case and upper-case hex
\* alike), and what surrounds it (nothing, or quotes or blanks).
IdForms == {"lower", "upper"}
IdWraps == {"none", "quoted"}
NoUuid == 0

\* listing_id.strip().strip('"').strip("'")
Clean(raw) == [raw EXCEPT !.wrap = "none"]

\* uuid.UUID(text): the UUID, NoUuid standing for the ValueError it raises;
\* a text that still carries quotes or blanks spells no UUID
ParseUuid(text) == IF text.wrap = "none" THEN text.uuid ELSE NoUuid

\* find_one({"_id": Binary.from_uuid(uuid)}) over all collections
ListingExists(cs, uuid) ==
    \E c \in 1..Len(cs) : \E i \in 1..Len(cs[c]) : cs[c][i].id = uuid

\* find({"user_id": u, "listing_id": text}) on the favorites collection
FavoritesOf(fs, u, text) ==
    {i \in 1..Len(fs) : fs[i].user_id = u /\ fs[i].listing_id = text}

\* delete_one: the sequence without its element i
RemoveAt(fs, i) == SubSeq(fs, 1, i - 1) \o SubSeq(fs, i + 1, Len(fs))

FavoriteResponse(op, u, raw, code) ==
    [op |-> op, user |-> u, listing |-> raw, code |-> code]

\* the callers of the favorites endpoints (current_user.id)
FavoriteUsers == {1, 2}

\* the listing ids the requests carry: of the stored listings 1 and 3, of a
\* listing no collection holds, and a text that spells no UUID
RequestIds == [uuid : {NoUuid, 1, 2, 3}, form : IdForms, wrap : IdWraps]

\* the listing stores of the favorites requests: no collection, or listing 1
\* in one collection and listing 3 in another
FavoriteStores == {<<>>, << <<ListingPool[1]>>, <<ListingPool[3]>> >>}

(* --------------------- favorites: the requests ------------------------ *)
\* create_favorite, delete_favorite and get_listing_by_id are plain "def"s:
\* the framework runs each request in a worker thread, and every call to the
\* database is a point where another request may run.  A create-favorite is
\* followed from its existence lookup to its find_one for a duplicate and to
\* its insert_one; the other two make one call.
Threads == {1, 2}

NoRequest ==
    FavoriteResponse("none", 0, [uuid |-> NoUuid, form |-> "lower",
                                 wrap |-> "none"], 0)

\* an insert into a collection with a unique index on (user_id, listing_id)
InsertFavorite_Unique(fs, u, listing_id) ==
    IF FavoritesOf(fs, u, listing_id) # {} THEN fs
    ELSE Append(fs, [user_id |-> u, listing_id |-> listing_id])

\* user_db["favorites"].insert_one(insert_data)
InsertFavorite(fs, u, listing_id) ==
    Append(fs, [user_id |-> u, listing_id |-> listing_id])

Answer(t, op, u, raw, code, at) ==
    /\ inflight' = [inflight EXCEPT ![t] = FavoriteResponse(op, u, raw, code)]
    /\ pc' = [pc EXCEPT ![t] = at]

\* the request of t arrives: the requests have run one after the other if
\* they had before and no other request is between two of its database calls
Arrives(t) ==
    /\ pc[t] = "idle"
    /\ serial' = (serial /\ \A s \in Threads \ {t} : pc[s] \in {"idle", "done"})

\* POST /v1/favorites/favorites, for a caller the access check admits.  The
\* id is cleaned and parsed, the ValueError of uuid.UUID is not caught, and
\* the listing is looked up over the collections.
create_favorite_lookup(t, u, raw) ==
    /\ Arrives(t)
    /\ IF ParseUuid(Clean(raw)) = NoUuid
       THEN Answer(t, "create", u, raw, HTTP_500, "done")
       ELSE IF ~ListingExists(colls, ParseUuid(Clean(raw)))
       THEN Answer(t, "create", u, raw, HTTP_404, "done")
       ELSE Answer(t, "create", u, raw, 0, "find")
    /\ UNCHANGED favs
    /\ UNCHANGED <<vars, listingVars, pwVars, tokenVars, rateVars>>

\* "Make sure the user is not already favoriting this listing"
create_favorite_find(t) ==
    /\ pc[t] = "find"
    /\ LET r == inflight[t]
       IN  IF FavoritesOf(favs, r.user, Clean(r.listing)) # {}
           THEN Answer(t, "create", r.user, r.listing, HTTP_400, "done")
           ELSE Answer(t, "create", r.user, r.listing, 0, "insert")
    /\ UNCHANGED <<favs, serial>>
    /\ UNCHANGED <<vars, listingVars, pwVars, tokenVars, rateVars>>

\* "Create the favorite"
create_favorite_insert(t) ==
    /\ pc[t] = "insert"
    /\ LET r == inflight[t]
       IN  /\ favs' = InsertFavorite(favs, r.user, Clean(r.listing))
           /\ Answer(t, "create", r.user, r.listing, HTTP_200, "done")
    /\ UNCHANGED serial
    /\ UNCHANGED <<vars, listingVars, pwVars, tokenVars, rateVars>>

\* DELETE /v1/favorites/favorites/{listing_id}: one delete_one, with the path
\* parameter as it comes
delete_favorite(t, u, raw) ==
    /\ Arrives(t)
    /\ favs' = IF FavoritesOf(favs, u, raw) = {}
               THEN favs
               ELSE RemoveAt(favs, Least(FavoritesOf(favs, u, raw)))
    /\ Answer(t, "delete", u, raw, HTTP_200, "done")
    /\ UNCHANGED <<vars, listingVars, pwVars, tokenVars, rateVars>>

\* GET /v1/listings/listings/{listing_id}, for a caller the access check
\* admits.  The path parameter is parsed as it comes; the ValueError of
\* uuid.UUID is caught and answered 400; the 404 raised inside the try block
\* is no ValueError and passes through.
get_listing_by_id(t, u, raw) ==
    /\ Arrives(t)
    /\ Answer(t, "get_listing", u, raw,
              IF ParseUuid(raw) = NoUuid THEN HTTP_400
              ELSE IF ListingExists(colls, ParseUuid(raw)) THEN HTTP_200
              ELSE HTTP_404,
              "done")
    /\ UNCHANGED favs
    /\ UNCHANGED <<vars, listingVars, pwVars, tokenVars, rateVars>>

\* the crawlers have filled the collections, no favorite is stored, and the
\* requests have not arrived
InitFavorites ==
    /\ InitSubscriptions
    /\ tz = 0
    /\ colls \in FavoriteStores
    /\ lres = NoListingResponse
    /\ favs = <<>>
    /\ IdlePasswords
    /\ IdleTokens
    /\ IdleRate
    /\ pc = [t \in Threads |-> "idle"]
    /\ inflight = [t \in Threads |-> NoRequest]
    /\ serial = TRUE

\* create-favorite and delete-favorite requests
NextFavorites ==
    \/ \E t \in Threads, u \in FavoriteUsers, raw \in RequestIds :
           create_favorite_lookup(t, u, raw)
    \/ \E t \in Threads : create_favorite_find(t)
    \/ \E t \in Threads : create_favorite_insert(t)
    \/ \E t \in Threads, u \in FavoriteUsers, raw \in RequestIds :
           delete_favorite(t, u, raw)

SpecFavorites == InitFavorites /\ [][NextFavorites]_<<favVars, raceVars>>

\* create-favorite requests only
InitRace == InitFavorites

NextRace ==
    \/ \E t \in Threads, u \in FavoriteUsers, raw \in RequestIds :
           create_favorite_lookup(t, u, raw)
    \/ \E t \in Threads : create_favorite_find(t)
    \/ \E t \in Threads : create_favorite_insert(t)

SpecRace == InitRace /\ [][NextRace]_<<favVars, raceVars>>

\* create-favorite and get-listing-by-id requests
InitListingIds == InitFavorites

NextListingIds ==
    \/ \E t \in Threads, u \in FavoriteUsers, raw \in RequestIds :
           create_favorite_lookup(t, u, raw)
    \/ \E t \in Threads : create_favorite_find(t)
    \/ \E t \in Threads : create_favorite_insert(t)
    \/ \E t \in Threads, u \in FavoriteUsers, raw \in RequestIds :
           get_listing_by_id(t, u, raw)

SpecListingIds == InitListingIds /\ [][NextListingIds]_<<favVars, raceVars>>

(* ------------------------------ passwords ----------------------------- *)
\* A password is its UTF-8 length in bytes and its text, a sequence of parts.
\* the 72-byte ceiling of bcrypt
BcryptMaxBytes == 72

\* hashlib.sha256(m).hexdigest(): 64 hex characters; different messages have
\* different digests
Sha256Hex(m) == [bytes |-> 64, text |-> <<"sha256(">> \o m.text \o <<")">>]

\* plain_password + salt, the salt being secrets.token_hex(16), 32 characters
Concat(p, salt) == [bytes |-> p.bytes + 32, text |-> p.text \o <<salt>>]

\* pwd_context.hash(secret) with the salt bcrypt draws; the callers pass no
\* secret above 72 bytes
BcryptHash(secret, salt) ==
    [fmt |-> "bcrypt", salt |-> salt, digest |-> secret.text]

\* pwd_context.verify(secret, hash) on a bcrypt hash
BcryptVerify(secret, h) == h.fmt = "bcrypt" /\ h.digest = secret.text

\* f"sha256:{salt}:{sha256(password + salt)}"
FallbackHash(p, salt) ==
    [fmt |-> "sha256", salt |-> salt, digest |-> Sha256Hex(Concat(p, salt)).text]

\* get_password_hash; ok is FALSE when pwd_context.hash raises
get_password_hash(p, salt, ok) ==
    IF p.bytes > BcryptMaxBytes
    THEN IF ok THEN BcryptHash(Sha256Hex(p), salt) ELSE FallbackHash(p, salt)
    ELSE IF ok THEN BcryptHash(p, salt) ELSE FallbackHash(p, salt)

\* verify_password; ok is FALSE when pwd_context.verify raises
verify_password(p, h, ok) ==
    IF h.fmt = "sha256"
    THEN Sha256Hex(Concat(p, h.salt)).text = h.digest
    ELSE IF ~ok
    THEN FALSE
    ELSE IF p.bytes > BcryptMaxBytes
    THEN BcryptVerify(Sha256Hex(p), h)
    ELSE BcryptVerify(p, h)

\* passwords above the ceiling
LongPasswords ==
    {[bytes |-> 73, text |-> <<"pw73">>], [bytes |-> 100, text |-> <<"pw100">>]}

\* passwords below and at the ceiling, the hex digests of the long ones among
\* them
ShortPasswords ==
    {[bytes |-> 8, text |-> <<"pw8a">>], [bytes |-> 8, text |-> <<"pw8b">>],
     [bytes |-> 72, text |-> <<"pw72">>]}
    \cup {Sha256Hex(p) : p \in LongPasswords}

Passwords == ShortPasswords \cup LongPasswords

Salts == {"salt1", "salt2"}

\* a password is hashed, as at registration
HashPassword(p, salt) ==
    /\ pw' = [op |-> "hashed", password |-> p,
              hash |-> get_password_hash(p, salt, bcryptOk)]
    /\ UNCHANGED <<vars, listingVars, favVars, bcryptOk, laterVars>>

\* a password is verified against the stored hash, as at login
VerifyPassword(p) ==
    /\ pw.op # "none"
    /\ pw' = [op |-> "verified", password |-> pw.password, hash |-> pw.hash,
              tried |-> p, result |-> verify_password(p, pw.hash, bcryptOk)]
    /\ UNCHANGED <<vars, listingVars, favVars, bcryptOk, laterVars>>

InitPasswords ==
    /\ InitSubscriptions
    /\ tz = 0
    /\ IdleListings
    /\ IdleFavorites
    /\ bcryptOk \in BOOLEAN
    /\ pw = NoPassword
    /\ IdleLater

NextPasswords ==
    \/ \E p \in Passwords, salt \in Salts : HashPassword(p, salt)
    \/ \E p \in Passwords : VerifyPassword(p)

SpecPasswords == InitPasswords /\ [][NextPasswords]_pwVars

(* --------------------------- bearer tokens ---------------------------- *)
\* A token as jwt.decode sees it: its form, whether its signature was made
\* with settings.SECRET_KEY, and the exp and sub claims of its payload (NoTs,
\* NoEmail: the claim is absent).  The form is "jws" for three segments with
\* a header and a JSON object as payload, "badpayload" for three segments
\* with a header whose payload is no JSON object, and "garbage" for a text
\* whose segments or header do not parse.
TokenForms == {"jws", "badpayload", "garbage"}
TokenKeys == {"secret", "other"}
TokenExpiries == {NoTs, 0, TickStep, MaxNow + 1}
TokenSubjects == {NoEmail, "a@x", "root@x", "ghost@x"}
Tokens == [form : TokenForms, key : TokenKeys, exp : TokenExpiries,
           sub : TokenSubjects]


\* the HTTPException get_current_user builds before it looks at the token
credentials_exception ==
    [status |-> HTTP_401, detail |-> "Could not validate credentials",
     headers |-> "WWW-Authenticate: Bearer", user |-> 0]

\* jwt.decode(token, SECRET_KEY, algorithms=[ALGORITHM]) at time t: the
\* exception it raises, "none" when it returns the payload.  The segments
\* and the header are parsed first, then the signature is verified, then the
\* payload is read as JSON, then exp is validated (exp <= now is expired; a
\* token without exp does not expire).
jwt_decode(tok, t) ==
    IF tok.form = "garbage" THEN "DecodeError"
    ELSE IF tok.key # "secret" THEN "InvalidSignatureError"
    ELSE IF tok.form # "jws" THEN "DecodeError"
    ELSE IF tok.exp # NoTs /\ tok.exp <= t THEN "ExpiredSignatureError"
    ELSE "none"

\* an HTTPException that tells the caller what was wrong with the token
CauseException(cause) ==
    [status |-> HTTP_401, detail |-> cause,
     headers |-> "WWW-Authenticate: Bearer", user |-> 0]

\* verify_token whose except clause reports the exception it caught
verify_token_ReportsCause(tok, t, exc) ==
    IF jwt_decode(tok, t) # "none"
    THEN [raised |-> TRUE, exc |-> CauseException(jwt_decode(tok, t)),
          email |-> NoEmail]
    ELSE IF tok.sub = NoEmail
    THEN [raised |-> TRUE, exc |-> exc, email |-> NoEmail]
    ELSE [raised |-> FALSE, exc |-> exc, email |-> tok.sub]

\* verify_token: the TokenData's email, or the exception that was passed in.
\* The raise at "email is None" is inside the try block and is caught and
\* raised again by the except clause, as every exception of jwt.decode is.
verify_token(tok, t, exc) ==
    IF jwt_decode(tok, t) # "none"
    THEN [raised |-> TRUE, exc |-> exc, email |-> NoEmail]
    ELSE IF tok.sub = NoEmail
    THEN [raised |-> TRUE, exc |-> exc, email |-> NoEmail]
    ELSE [raised |-> FALSE, exc |-> exc, email |-> tok.sub]

\* get_current_user: what the caller of an endpoint that depends on it sees
\* of the token (status 200 and the user when the dependency returns)
get_current_user(us, tok, t) ==
    LET token_data == verify_token(tok, t, credentials_exception)
        u == get_user_by_email(token_data.email)
    IN  IF token_data.raised THEN token_data.exc
        ELSE IF u = 0 THEN credentials_exception
        ELSE [status |-> HTTP_200, detail |-> NoDetail, headers |-> "none",
              user |-> u]

\* a request that presents a bearer token
PresentToken(tok) ==
    /\ LET r == get_current_user(users, tok, now)
       IN  tres' = [status |-> r.status, detail |-> r.detail,
                    headers |-> r.headers, user |-> r.user,
                    token |-> tok, at |-> now]
    /\ UNCHANGED <<vars, listingVars, favVars, pwVars, rateVars, raceVars>>

InitTokens == InitUnsubscribed

NextTokens ==
    \/ Tick
    \/ \E tok \in Tokens : PresentToken(tok)

SpecTokens == InitTokens /\ [][NextTokens]_<<vars, tokenVars>>

(* ------------------------- check-email limiter ------------------------ *)
\* "max 10 requests per minute per IP"
RateWindow == 60
RateLimit == 10
HTTP_429 == 429

\* request.client.host
ClientIps == {"10.0.0.1", "10.0.0.2"}

\* the email of the request body: absent, or an address nobody registered
EmailBodies == {"missing", "available"}

\* a limiter that keeps a timestamp until it is more than 60 seconds old
KeptTimes_Inclusive(times, current_time) ==
    SelectSeq(times, LAMBDA req_time : current_time - req_time <= RateWindow)

\* the timestamps of one address that are kept: current_time - req_time < 60
KeptTimes(times, current_time) ==
    SelectSeq(times, LAMBDA req_time : current_time - req_time < RateWindow)

\* the limiter with "len(...) > 10" in place of "len(...) >= 10"
TooMany_Above(times) == Len(times) > RateLimit

\* "Check if too many requests"
TooMany(times) == Len(times) >= RateLimit

\* dict[key] = value
SetItem(d, key, value) ==
    [k \in DOMAIN d \cup {key} |-> IF k = key THEN value ELSE d[k]]

\* dict.get(key, [])
ItemOr(d, key) == IF key \in DOMAIN d THEN d[key] ELSE <<>>

CheckResponse(ip, code) ==
    [n |-> cres.n + 1, ip |-> ip, at |-> clock, status |-> code]

\* POST /v1/auth/check-email.  The handler has no await between reading and
\* writing email_check_requests, so one request is one step.  A rejected
\* request has stored the pruned list and nothing else.
check_email(ip, body) ==
    LET kept == IF ip \in DOMAIN email_check_requests
                THEN KeptTimes(email_check_requests[ip], clock)
                ELSE <<>>
    IN  IF TooMany(kept)
        THEN /\ email_check_requests' = SetItem(email_check_requests, ip, kept)
             /\ cres' = CheckResponse(ip, HTTP_429)
             /\ UNCHANGED <<clock, admitted>>
        ELSE /\ email_check_requests' =
                    SetItem(email_check_requests, ip, Append(kept, clock))
             /\ admitted' = SetItem(admitted, ip,
                                    Append(ItemOr(admitted, ip), clock))
             /\ cres' = CheckResponse(ip, IF body = "missing" THEN HTTP_400
                                          ELSE HTTP_200)
             /\ UNCHANGED clock

\* time.time() moves on
ClockTick ==
    /\ clock + ClockStep <= MaxClock
    /\ clock' = clock + ClockStep
    /\ UNCHANGED <<email_check_requests, cres, admitted>>
    /\ UNCHANGED <<vars, listingVars, favVars, pwVars, tokenVars, raceVars>>

CheckEmail(ip, body) ==
    /\ cres.n < MaxRequests
    /\ check_email(ip, body)
    /\ UNCHANGED <<vars, listingVars, favVars, pwVars, tokenVars, raceVars>>

InitRate == InitUnsubscribed

NextRate ==
    \/ ClockTick
    \/ \E ip \in ClientIps, body \in EmailBodies : CheckEmail(ip, body)

SpecRate == InitRate /\ [][NextRate]_rateVars

(* ---------------------------- registration ---------------------------- *)
HTTP_422 == 422

\* the users create_admin.py and earlier registrations left: those of Init
InitialUsers == 2

\* the email texts of the registration requests
RegisterEmails == {"a@x", "b@x", "b@X", "b @x.", "nobody"}

\* UserRole, which UserCreate takes from the request body (default "user")
UserRoles == {"user", "admin"}

InsertUser(email, role) == Append(users, [email |-> email, role |-> role])

\* POST /v1/auth/register.  The body is a UserCreate: a text that is no
\* EmailStr is refused with 422 before the handler runs, and the handler sees
\* the normalized email.  fieldsOk: name and password are non-empty and the
\* password has 6 characters or more.  The role is the request's.
register_user(raw, role, fieldsOk) ==
    IF ~IsEmailStr(raw)
    THEN /\ resp' = Response("register", HTTP_422, "validation")
         /\ UNCHANGED <<users, subs, now, nextSid, delivered, tz, restVars>>
    ELSE IF ~fieldsOk
    THEN /\ resp' = Response("register", HTTP_400, "validation")
         /\ UNCHANGED <<users, subs, now, nextSid, delivered, tz, restVars>>
    ELSE IF get_user_by_email_raises(NormalizeEmail(raw))
    THEN /\ resp' = Response("register", HTTP_500, "unexpected")
         /\ UNCHANGED <<users, subs, now, nextSid, delivered, tz, restVars>>
    ELSE IF get_user_by_email(NormalizeEmail(raw)) # 0
    THEN /\ resp' = Response("register", HTTP_400, "Email already registered")
         /\ UNCHANGED <<users, subs, now, nextSid, delivered, tz, restVars>>
    ELSE /\ Len(users) < MaxUsers
         /\ users' = InsertUser(NormalizeEmail(raw), role)
         /\ resp' = Response("register", HTTP_200, "account_created")
         /\ UNCHANGED <<subs, now, nextSid, delivered, tz, restVars>>

\* POST /v1/auth/register-flexible.  The body is raw JSON: the email is
\* checked for an "@" and a "." only and is used as it comes.  The
\* ValidationError of get_user_by_email is no HTTPException, so the outer
\* except answers 500.
register_user_flexible(raw, fieldsOk) ==
    IF ~fieldsOk \/ ~HasAtAndDot(raw)
    THEN /\ resp' = Response("register_flexible", HTTP_400, "validation")
         /\ UNCHANGED <<users, subs, now, nextSid, delivered, tz, restVars>>
    ELSE IF get_user_by_email_raises(raw)
    THEN /\ resp' = Response("register_flexible", HTTP_500, "unexpected")
         /\ UNCHANGED <<users, subs, now, nextSid, delivered, tz, restVars>>
    ELSE IF get_user_by_email(raw) # 0
    THEN /\ resp' = Response("register_flexible", HTTP_400,
                             "Email already registered")
         /\ UNCHANGED <<users, subs, now, nextSid, delivered, tz, restVars>>
    ELSE /\ Len(users) < MaxUsers
         /\ users' = InsertUser(raw, "user")
         /\ resp' = Response("register_flexible", HTTP_200, "account_created")
         /\ UNCHANGED <<subs, now, nextSid, delivered, tz, restVars>>

InitRegister == InitUnsubscribed

NextRegister ==
    \/ Tick
    \/ \E raw \in RegisterEmails, role \in UserRoles, fieldsOk \in BOOLEAN :
           register_user(raw, role, fieldsOk)
    \/ \E raw \in RegisterEmails, fieldsOk \in BOOLEAN :
           register_user_flexible(raw, fieldsOk)
    \/ \E email \in RegisterEmails, providerOk \in BOOLEAN :
           create_subscription(email, providerOk)
    \/ \E u \in UserIds : GatedRequest(u)

SpecRegister == InitRegister /\ [][NextRegister]_vars

(* ------------------ the handlers on records of users ------------------ *)
\* cancel, renew and reactivate act on the records that carry a user_id.
\* Only the create flows insert such a record, and in this build they raise
\* before they do (ProductIdConfigured), so no behaviour of Spec holds one.
\* What these handlers do to a record of a user is therefore checked on
\* collections given to them: every collection of up to MaxSubs records a
\* create flow would have written and a cancel could have marked since,
\* with no further condition on them.  Properties checked here are
\* properties of one step of a handler, over all these collections.

\* no record carries the id of a user: an invariant of Spec
NoRecordOfAUser == \A i \in 1..Len(subs) : subs[i].user_id \notin UserIds

\* the days, before the first request of a behaviour, on which the given
\* records were created
SeedTimes == {0 - TickStep, 0}

\* a given record: the subscription_doc of a create flow for user u on day
\* t, with or without a provider subscription id, with the status st
SeedDoc(u, st, sid, t) == [NewSubscriptionDoc(u, sid, t) EXCEPT !.status = st]

\* The given collections: up to MaxSubs records, in the order of their
\* creation and no two created at the same time, the i-th with provider id
\* i or with none.
SeedStores ==
    {s \in UNION {[1..n -> [user_id : 1..Len(SeedUsers),
                            user_email : {NoEmail},
                            status : {"active", "cancelled"},
                            stripe_subscription_id : {NoSid} \cup (1..MaxSubs),
                            ends_at : {t + PeriodDays : t \in SeedTimes},
                            created_at : SeedTimes]] : n \in 0..MaxSubs} :
        /\ \A i \in 1..Len(s) :
              /\ s[i] = SeedDoc(s[i].user_id, s[i].status,
                                s[i].stripe_subscription_id, s[i].created_at)
              /\ s[i].stripe_subscription_id \in {NoSid, i}
        /\ \A i, j \in 1..Len(s) : i < j => s[i].created_at < s[j].created_at}

\* the backend as it is started, or on a given collection with one of the
\* provider's deliveries of the behaviour still to come
InitLifecycle ==
    /\ \/ InitSubscriptions
       \/ \E s \in SeedStores : InitStore(s, MaxDeliveries - 1)
    /\ tz = 0
    /\ IdleListings
    /\ IdleFavorites
    /\ IdlePasswords
    /\ IdleLater

\* every request of Next, from every state of Spec and on the given
\* collections
SpecLifecycle == InitLifecycle /\ [][Next]_vars

(* ------------------------------ properties ---------------------------- *)
\* the user's most recent subscription record (greatest created_at), 0 when
\* the user has none
MostRecentSub(u) ==
    IF UserSubs(subs, u) = {} THEN 0 ELSE MostRecentOf(subs, UserSubs(subs, u))

\* the store differs from the one before the step in document i at most
OnlyDocChanges(i) ==
    /\ Len(subs') = Len(subs)
    /\ \A j \in 1..Len(subs) : j # i => subs'[j] = subs[j]

\* C3: cancel-subscription of a user with a record of status active answers
\* 200, sets one such record to cancelled and changes neither its ends_at nor
\* any other record, and the access check admits the user at every time from
\* now up to that ends_at as long as the store stays as it is; without a
\* record of status active it answers 404 and changes nothing.
C3_CancelKeepsPeriod ==
    [][resp'.op = "cancel" =>
       \A u \in UserIds, p \in ProviderStatuses :
          cancel_subscription(u, p)
          => IF \E i \in 1..Len(subs) :
                    subs[i].user_id = u /\ subs[i].status = "active"
             THEN /\ resp'.code = HTTP_200
                  /\ \E i \in 1..Len(subs) :
                        /\ subs[i].user_id = u
                        /\ subs[i].status = "active"
                        /\ subs'[i].status = "cancelled"
                        /\ subs'[i].ends_at = subs[i].ends_at
                        /\ subs'[i].user_id = u
                        /\ OnlyDocChanges(i)
                        /\ \A t \in now..(subs[i].ends_at - 1) :
                              get_current_subscribed_user(users', subs', t, u)
             ELSE /\ resp'.code = HTTP_404
                  /\ subs' = subs]_vars

\* a cancel was answered 200 and left a cancelled record of a user who is no
\* admin within its period
C3_Witness ==
    /\ resp.op = "cancel"
    /\ resp.code = HTTP_200
    /\ \E i \in 1..Len(subs) :
          /\ subs[i].user_id # 0
          /\ users[subs[i].user_id].role # "admin"
          /\ subs[i].status = "cancelled"
          /\ subs[i].ends_at > now

\* C4: renew-subscription of a user whose most recent record is cancelled with
\* ends_at > now inserts no record, creates no provider subscription (no
\* payment) and changes no ends_at and no other record; it sets that record
\* to active and answers 200, unless the record has a provider subscription
\* id and the provider call that clears its cancel flag fails, when the
\* store is unchanged.
C4_RenewReactivatesInPlace ==
    [][resp'.op = "renew" =>
       \A u \in UserIds, ok \in BOOLEAN :
          (/\ MostRecentSub(u) # 0
           /\ subs[MostRecentSub(u)].status = "cancelled"
           /\ subs[MostRecentSub(u)].ends_at > now
           /\ renew_subscription(u, ok))
          => /\ OnlyDocChanges(MostRecentSub(u))
             /\ nextSid' = nextSid
             /\ Cardinality(UserSubs(subs', u)) = Cardinality(UserSubs(subs, u))
             /\ subs'[MostRecentSub(u)].ends_at = subs[MostRecentSub(u)].ends_at
             /\ (ok \/ subs[MostRecentSub(u)].stripe_subscription_id = NoSid)
                   => /\ resp'.code = HTTP_200
                      /\ subs'[MostRecentSub(u)].status = "active"
             /\ (~ok /\ subs[MostRecentSub(u)].stripe_subscription_id # NoSid)
                   => subs' = subs]_vars

\* a renew was answered with the reactivation message
C4_Witness ==
    /\ resp = Response("renew", HTTP_200, "reactivated")
    /\ \E i \in 1..Len(subs) :
          subs[i].user_id # 0 /\ subs[i].status = "active" /\ subs[i].ends_at > now

\* the step appends one record, of user u, active and ending 30 days from now,
\* and changes no record that was there
InsertsOneActive(u) ==
    /\ Len(subs') = Len(subs) + 1
    /\ \A j \in 1..Len(subs) : subs'[j] = subs[j]
    /\ subs'[Len(subs')].user_id = u
    /\ subs'[Len(subs')].status = "active"
    /\ subs'[Len(subs')].ends_at = now + 30

\* the user has no subscription record, or only records whose ends_at is past
NoneOrExpired(u) ==
    \A i \in 1..Len(subs) : subs[i].user_id = u => subs[i].ends_at <= now

\* C6 as stated: a create whose provider calls all succeed is successful and
\* inserts exactly one record of the user, active, with ends_at = now + 30
\* days, and changes no existing record: create-subscription with an email
\* no user has (which inserts that user as well), create-subscription-for-user
\* and renew-subscription of a user with no record or only expired ones.
C6_CreateInsertsOneActive ==
    [][resp'.op \in {"create_subscription", "create_for_user", "renew"} =>
       /\ \A e \in Emails :
            (get_user_by_email(e) = 0 /\ create_subscription(e, TRUE))
            => /\ resp'.code = HTTP_200
               /\ Len(users') = Len(users) + 1
               /\ users'[Len(users')].email = e
               /\ InsertsOneActive(Len(users'))
       /\ \A u \in UserIds :
            (NoneOrExpired(u) /\ create_subscription_for_user(u, TRUE))
            => (resp'.code = HTTP_200 /\ InsertsOneActive(u))
       /\ \A u \in UserIds :
            (NoneOrExpired(u) /\ renew_subscription(u, TRUE))
            => (resp'.code = HTTP_200 /\ InsertsOneActive(u))]_vars

\* C7: a cancel-subscription during which the provider call raises a provider
\* error, of a user with a record of status active, answers 200 and sets one
\* such record to cancelled.
C7_CancelSurvivesProviderError ==
    [][resp'.op = "cancel" =>
       \A u \in UserIds :
          (cancel_subscription(u, "error")
           /\ \E i \in 1..Len(subs) : subs[i].user_id = u /\ subs[i].status = "active")
          => /\ resp'.code = HTTP_200
             /\ \E i \in 1..Len(subs) :
                   /\ subs[i].user_id = u
                   /\ subs[i].status = "active"
                   /\ subs'[i].status = "cancelled"]_vars

\* a cancel whose provider call failed was answered 200 with the message of
\* that branch, and a cancelled record is in the store
C7_Witness ==
    /\ resp = Response("cancel", HTTP_200, "contact_support")
    /\ \E i \in 1..Len(subs) : subs[i].user_id # 0 /\ subs[i].status = "cancelled"

\* C8 as stated: every signature-valid event delivered to the webhook endpoint
\* is answered with the success response.
C8_WebhookAlwaysSucceeds ==
    resp.op \in {"webhook", "webhook_redelivery"} => resp.code = HTTP_200

\* C9 as stated: delivering a signature-valid event a second time, at the
\* same or a later time and with no other request in between, leaves every
\* subscription record as the first delivery left it.
C9_RedeliveryIdempotent ==
    [][stripe_webhook_redelivery => subs' = subs]_vars

\* C10 as stated: a payment-succeeded event resolved to a provider
\* subscription id with a local record sets that record active with ends_at
\* 30 days beyond its previous ends_at, and changes no other record.
C10_PaymentExtendsFromPreviousEnd ==
    [][resp'.op = "webhook" =>
       \A ev \in Events :
          (/\ ev.type = "payment_intent.created"
           /\ ev.sid # NoSid
           /\ SubsWithSid(subs, ev.sid) # {}
           /\ stripe_webhook(ev))
          => \E i \in SubsWithSid(subs, ev.sid) :
                /\ subs'[i].status = "active"
                /\ subs'[i].ends_at = subs[i].ends_at + 30
                /\ OnlyDocChanges(i)]_vars

\* C10 amended: a payment-succeeded event resolved to a provider subscription
\* id with a local record sets that record active with ends_at 30 days after
\* the time the event is handled, whatever its previous ends_at, and changes
\* no other record.
C10_PaymentEndsThirtyDaysFromNow ==
    [][resp'.op = "webhook" =>
       \A ev \in Events :
          (/\ ev.type = "payment_intent.created"
           /\ ev.sid # NoSid
           /\ SubsWithSid(subs, ev.sid) # {}
           /\ stripe_webhook(ev))
          => \E i \in SubsWithSid(subs, ev.sid) :
                /\ subs'[i].status = "active"
                /\ subs'[i].ends_at = now + 30
                /\ subs'[i].user_id = subs[i].user_id
                /\ subs'[i].stripe_subscription_id = ev.sid
                /\ OnlyDocChanges(i)]_vars

\* a payment-succeeded event was handled for the record an earlier event
\* had left on an earlier day, while another record is in the store; its
\* ends_at is now 30 days from the handling time, which is not 30 days
\* beyond the ends_at it had
C10_Witness ==
    /\ resp.op = "webhook"
    /\ resp.code = HTTP_200
    /\ resp.detail = "payment_intent.created"
    /\ Len(subs) > 1
    /\ \E i \in SubsWithSid(subs, resp.event.sid) :
          /\ subs[i].created_at < now
          /\ subs[i].status = "active"
          /\ subs[i].ends_at = now + PeriodDays

\* C11: a payment-failed event that names a provider subscription id with a
\* local record sets that record to status inactive and ends_at = now and
\* changes nothing else, and the record then fails the access condition at
\* that time and at every later time; an event without an id, or with an id
\* no record has, leaves the store unchanged.  No request of the API and no
\* passing of time changes an inactive record: only a later event of the
\* provider can.
C11_PaymentFailedEndsAccess ==
    [][/\ resp'.op = "webhook" =>
          \A ev \in Events :
             (ev.type = "invoice.payment_failed" /\ stripe_webhook(ev))
             => IF ev.sid = NoSid \/ SubsWithSid(subs, ev.sid) = {}
                THEN subs' = subs
                ELSE \E i \in SubsWithSid(subs, ev.sid) :
                        /\ subs' = [subs EXCEPT ![i].status = "inactive",
                                                ![i].ends_at = now]
                        /\ \A t \in now..(MaxNow + PeriodDays) :
                              ~ValidAt(subs'[i], t)
       /\ \A i \in 1..Len(subs) :
             subs[i].status = "inactive"
             => \/ (Len(subs') >= i /\ subs'[i] = subs[i])
                \/ resp'.op \in {"webhook", "webhook_redelivery"}]_vars

\* a payment-failed event was handled for a record that was created active
\* with a period still running; the record is inactive and ended at that time
C11_Witness ==
    /\ resp.op = "webhook"
    /\ resp.detail = "invoice.payment_failed"
    /\ \E i \in SubsWithSid(subs, resp.event.sid) :
          /\ subs[i].status = "inactive"
          /\ subs[i].ends_at = now
          /\ subs[i].created_at + PeriodDays > now
          /\ ~get_current_subscribed_user(users, subs, now, subs[i].user_id)

\* C12 as stated: a subscription-deleted event, and a subscription-updated
\* event that carries a cancel-at timestamp, sets the record with the event's
\* provider subscription id to status cancelled with ends_at equal to the
\* event's timestamp, and changes no other record.
C12_CancelledAtProviderTimestamp ==
    [][resp'.op = "webhook" =>
       \A ev \in Events :
          (/\ ev.type \in {"customer.subscription.deleted",
                           "customer.subscription.updated"}
           /\ ev.ts # NoTs
           /\ ev.sid # NoSid
           /\ SubsWithSid(subs, ev.sid) # {}
           /\ stripe_webhook(ev))
          => \E i \in SubsWithSid(subs, ev.sid) :
                /\ subs'[i].status = "cancelled"
                /\ subs'[i].ends_at = ev.ts
                /\ OnlyDocChanges(i)]_vars

(* ------------------------ listing query: properties ------------------- *)
\* the listings of all collections, as <<collection, position>>
AllListings == {r \in (1..Len(colls)) \X (1..MaxListings) : r[2] <= Len(colls[r[1]])}

ListingAt(r) == colls[r[1]][r[2]]

\* listing d satisfies every filter that f gives; a listing whose price is no
\* number satisfies none, and a text without a number is in no range
SatisfiesFilters(d, f) ==
    /\ d.price.kind = "number"
    /\ \A k \in ActiveFields(f) :
          CASE k = "prefecture" -> d.prefecture = f.prefecture
            [] k = "layout" -> d.layout = f.layout
            [] k = "sale_price_min" -> d.price.val >= f.sale_price_min
            [] k = "sale_price_max" -> d.price.val <= f.sale_price_max
            [] k = "building_area_min" ->
                 /\ ~AreaNumeric(d.barea).null
                 /\ DoubleGte(AreaNumeric(d.barea), f.building_area_min)
            [] k = "building_area_max" ->
                 /\ ~AreaNumeric(d.barea).null
                 /\ DoubleLte(AreaNumeric(d.barea), f.building_area_max)
            [] k = "land_area_min" ->
                 /\ ~AreaNumeric(d.larea).null
                 /\ DoubleGte(AreaNumeric(d.larea), f.land_area_min)
            [] k = "land_area_max" ->
                 /\ ~AreaNumeric(d.larea).null
                 /\ DoubleLte(AreaNumeric(d.larea), f.land_area_max)
            [] k = "construction_year_min" ->
                 /\ ConstructionYear(d.cdate, CurrentYear) # NullNum
                 /\ ConstructionYear(d.cdate, CurrentYear) >= f.construction_year_min
            [] k = "construction_year_max" ->
                 /\ ConstructionYear(d.cdate, CurrentYear) # NullNum
                 /\ ConstructionYear(d.cdate, CurrentYear) <= f.construction_year_max

\* the listings of all collections that satisfy the filters of the answered
\* query
Satisfying == {r \in AllListings : SatisfiesFilters(ListingAt(r), lres.q.filters)}

\* n = ceil(a / b)
IsCeil(n, a, b) ==
    /\ b # 0
    /\ (b > 0 => (n - 1) * b < a /\ a <= n * b)
    /\ (b < 0 => (n - 1) * b > a /\ a >= n * b)

\* C14 as stated: every query with page >= 1 and limit <= 100, and with the
\* other parameters as the endpoint admits them, is answered normally, with
\* total_pages = ceil(total_count / limit).
C14_EveryAdmittedPageAnswered ==
    (lres.status # "none" /\ ParametersValid(lres.q)) =>
        /\ lres.status = "ok"
        /\ IsCeil(lres.total_pages, lres.total_count, lres.q.limit)

\* the sort key of d comes strictly before, respectively not after, that of e
\* in the order the query selects
Before(d, e, q) ==
    IF q.sort_by = "sale_price"
    THEN IF q.sort_order = "asc" THEN d.price.val < e.price.val
                                   ELSE d.price.val > e.price.val
    ELSE IF q.sort_order = "asc" THEN d.createdAt < e.createdAt
                                  ELSE d.createdAt > e.createdAt

\* C15: the returned page is the slice from offset (page - 1) * limit, of
\* length at most limit, of all satisfying listings of all collections
\* ordered as one set by the selected key (price for sale_price, creation
\* time for any other value) in the selected direction (ascending for asc,
\* descending for any other value).
C15_PageIsSliceOfSortedUnion ==
    lres.status = "ok" =>
        LET q == lres.q
            offset == (q.page - 1) * q.limit
            n == Cardinality(Satisfying)
            page == lres.results
        IN  /\ Len(page) = IF n - offset <= 0 \/ q.limit <= 0 THEN 0
                           ELSE IF n - offset < q.limit THEN n - offset
                           ELSE q.limit
            /\ \A k \in 1..Len(page) :
                  /\ \E r \in Satisfying : ListingAt(r) = page[k]
                  /\ \A m \in 1..Len(page) : m < k => page[m].id # page[k].id
                  /\ \A m \in 1..Len(page) : m < k => ~Before(page[k], page[m], q)
                  /\ Cardinality({r \in Satisfying : Before(ListingAt(r), page[k], q)})
                        <= offset + k - 1
                  /\ Cardinality({r \in Satisfying : ~Before(page[k], ListingAt(r), q)})
                        >= offset + k

\* the second page of one listing was returned; it comes from the first
\* collection, and the listing that precedes it lies in the second one
C15_Witness ==
    /\ lres.status = "ok"
    /\ lres.q.page = 2
    /\ lres.q.limit = 1
    /\ Len(lres.results) = 1
    /\ Len(colls) = 2
    /\ \E i \in 1..Len(colls[1]) : colls[1][i] = lres.results[1]
    /\ \E i \in 1..Len(colls[2]) : Before(colls[2][i], lres.results[1], lres.q)

\* C16: no listing whose price is absent or is no number is ever returned,
\* whatever the filters are, price bounds or none.
C16_NoPriceNeverReturned ==
    lres.status = "ok" =>
        \A k \in 1..Len(lres.results) : lres.results[k].price.kind = "number"

\* a query without price bounds was answered with a listing, from a store
\* that holds a listing without a numeric price that meets every other filter
C16_Witness ==
    /\ lres.status = "ok"
    /\ lres.q.filters.sale_price_min = NoBound
    /\ lres.q.filters.sale_price_max = NoBound
    /\ Len(lres.results) = 1
    /\ lres.total_count = 1
    /\ \E r \in AllListings :
          /\ ListingAt(r).price.kind # "number"
          /\ StagesMatch(ListingAt(r), lres.q.filters)
          /\ lres.q.filters.prefecture \in {NoStr, ListingAt(r).prefecture}
          /\ lres.q.filters.layout \in {NoStr, ListingAt(r).layout}

\* the start indexes of the numbers of exactly four digits
FourDigitNumberStarts(txt) ==
    {i \in 1..Len(txt) :
        /\ IsDigit(txt[i])
        /\ (i = 1 \/ ~IsDigit(txt[i - 1]))
        /\ RunEnd(txt, i) = i + 3}

\* the construction year as the rule states it: the 4-digit year of the text
\* when it has one, otherwise currentYear - N for an "N years" phrase,
\* otherwise none
StatedYear(field, currentYear) ==
    LET txt == IfNull(field)
    IN  IF FourDigitNumberStarts(txt) # {}
        THEN LET i == Least(FourDigitNumberStarts(txt)) IN ToInt(txt, i, i + 3)
        ELSE IF YearsStarts(txt) # {}
        THEN LET i == Least(YearsStarts(txt))
             IN  currentYear - ToInt(txt, i, RunEnd(txt, i))
        ELSE NullNum

YearFilterGiven(f) ==
    f.construction_year_min # NoBound \/ f.construction_year_max # NoBound

\* x <= bound and x >= bound for the number x of a text, taken as the
\* decimal the text writes
DecimalLte(x, bound) ==
    /\ bound >= 0
    /\ \/ NatLess(x.whole, IntDigits(bound))
       \/ (x.whole = IntDigits(bound) /\ IsZero(x.frac))

DecimalGte(x, bound) == bound <= 0 \/ ~NatLess(x.whole, IntDigits(bound))

\* listing d satisfies every filter that f gives, as the filters are stated:
\* an area is the first number of its text and a text without a number is
\* in no range, the construction year is the stated one and a listing
\* without one is in no range of years, and a listing without a numeric
\* price is in no result
SatisfiesStatedFilters(d, f) ==
    /\ d.price.kind = "number"
    /\ \A k \in ActiveFields(f) :
          CASE k = "prefecture" -> d.prefecture = f.prefecture
            [] k = "layout" -> d.layout = f.layout
            [] k = "sale_price_min" -> d.price.val >= f.sale_price_min
            [] k = "sale_price_max" -> d.price.val <= f.sale_price_max
            [] k = "building_area_min" ->
                 /\ ~FirstNumber(IfNull(d.barea)).null
                 /\ DecimalGte(FirstNumber(IfNull(d.barea)), f.building_area_min)
            [] k = "building_area_max" ->
                 /\ ~FirstNumber(IfNull(d.barea)).null
                 /\ DecimalLte(FirstNumber(IfNull(d.barea)), f.building_area_max)
            [] k = "land_area_min" ->
                 /\ ~FirstNumber(IfNull(d.larea)).null
                 /\ DecimalGte(FirstNumber(IfNull(d.larea)), f.land_area_min)
            [] k = "land_area_max" ->
                 /\ ~FirstNumber(IfNull(d.larea)).null
                 /\ DecimalLte(FirstNumber(IfNull(d.larea)), f.land_area_max)
            [] k = "construction_year_min" ->
                 /\ StatedYear(d.cdate, CurrentYear) # NullNum
                 /\ StatedYear(d.cdate, CurrentYear) >= f.construction_year_min
            [] k = "construction_year_max" ->
                 /\ StatedYear(d.cdate, CurrentYear) # NullNum
                 /\ StatedYear(d.cdate, CurrentYear) <= f.construction_year_max

\* C13 as stated: every listing of the returned page satisfies all filters
\* of the query, and total_count is the number of listings of all
\* collections that satisfy them, whatever page and limit are.
C13_PageSatisfiesFiltersAndCountsAll ==
    lres.status = "ok" =>
        /\ \A k \in 1..Len(lres.results) :
              SatisfiesStatedFilters(lres.results[k], lres.q.filters)
        /\ lres.total_count =
              Cardinality({r \in AllListings :
                  SatisfiesStatedFilters(ListingAt(r), lres.q.filters)})

\* C17 as stated: the year the query derives from a listing's construction
\* text is the 4-digit year when the text has one, otherwise current year - N
\* for an "N years" phrase, otherwise none; a listing with no derived year is
\* not returned when a construction-year minimum or maximum is given.
C17_ConstructionYearAsStated ==
    lres.status = "ok" =>
        \A r \in AllListings :
           /\ ConstructionYear(ListingAt(r).cdate, CurrentYear)
                = StatedYear(ListingAt(r).cdate, CurrentYear)
           /\ (YearFilterGiven(lres.q.filters)
                 /\ StatedYear(ListingAt(r).cdate, CurrentYear) = NullNum)
              => \A k \in 1..Len(lres.results) : lres.results[k] # ListingAt(r)

(* --------------------------- favorites: properties -------------------- *)
\* C18 as stated: a create-favorite whose listing id no listing of any
\* collection has is answered not-found and inserts nothing.
C18_UnknownListingIsNotFound ==
    [][\A t \in Threads, u \in FavoriteUsers, raw \in RequestIds :
          (/\ ~ListingExists(colls, ParseUuid(Clean(raw)))
           /\ create_favorite_lookup(t, u, raw))
          => /\ pc'[t] = "done"
             /\ inflight'[t].code = HTTP_404
             /\ favs' = favs]_<<favVars, raceVars>>

\* C19 as stated: as long as the create-favorite and delete-favorite
\* requests run one after the other, the favorites store never holds two
\* records of one user for one listing.
C19_OneFavoritePerUserAndListing ==
    serial => \A i, j \in 1..Len(favs) :
        (favs[i].user_id = favs[j].user_id
           /\ ParseUuid(favs[i].listing_id) = ParseUuid(favs[j].listing_id))
        => i = j

(* --------------------------- passwords: properties -------------------- *)
\* C20 as stated: verifying password p against the hash of password p'
\* succeeds exactly when p = p', for passwords below, at and above the
\* 72-byte ceiling and for hashes of both formats.
C20_VerifyIffSamePassword ==
    pw.op = "verified" => (pw.result <=> pw.tried = pw.password)

(* C21: token verification fails uniformly.  For a token that is malformed, *)
(* has a bad signature, is expired, has no subject, or names a subject that *)
(* is not a user, the caller receives the same error: status 401, the same  *)
(* detail and the same headers, whatever the cause.                         *)
TokenFails(tok, t) ==
    \/ tok.form # "jws"
    \/ tok.key # "secret"
    \/ (tok.exp # NoTs /\ tok.exp <= t)
    \/ tok.sub = NoEmail
    \/ \A u \in UserIds : users[u].email # tok.sub

C21_TokenFailuresUniform ==
    tres # NoTokenResponse =>
        IF TokenFails(tres.token, tres.at)
        THEN /\ tres.status = HTTP_401
             /\ tres.detail = "Could not validate credentials"
             /\ tres.headers = "WWW-Authenticate: Bearer"
        ELSE tres.status = HTTP_200

\* an expired token that is otherwise good has been refused
C21_Witness ==
    /\ tres # NoTokenResponse
    /\ tres.token.form = "jws" /\ tres.token.key = "secret"
    /\ tres.token.sub = "a@x"
    /\ tres.token.exp # NoTs /\ tres.token.exp <= tres.at /\ tres.at > 0
    /\ tres.status = HTTP_401

(* C22: for every client address, among the check-email requests whose      *)
(* arrival times lie within a 60-second span (from an arrival time up to,   *)
(* not including, 60 seconds later) at most 10 pass the rate limiter; a     *)
(* request is rejected with 429 only when 10 requests of its own address    *)
(* passed within the last 60 seconds, so another address never counts.      *)
PassedFrom(ip, from) ==
    {j \in 1..Len(admitted[ip]) :
        from <= admitted[ip][j] /\ admitted[ip][j] < from + RateWindow}

PassedLately(ip, t) ==
    {j \in 1..Len(ItemOr(admitted, ip)) : t - admitted[ip][j] < RateWindow}

C22_AtMostTenPerWindow ==
    /\ \A ip \in DOMAIN admitted : \A i \in 1..Len(admitted[ip]) :
           Cardinality(PassedFrom(ip, admitted[ip][i])) <= RateLimit
    /\ cres.n > 0 =>
           IF Cardinality(PassedLately(cres.ip, cres.at)) < RateLimit
           THEN cres.status # HTTP_429
           ELSE cres.status = HTTP_429
                \/ admitted[cres.ip][Len(admitted[cres.ip])] = cres.at

\* the eleventh request of one address within a minute has been rejected
\* while the other address was served
C22_Witness ==
    /\ cres.status = HTTP_429
    /\ cres.at = ClockStep
    /\ \E ip \in DOMAIN admitted : ip # cres.ip /\ Len(admitted[ip]) > 0
    /\ Len(admitted[cres.ip]) = RateLimit

(* C30: a rejected check-email request records no timestamp, and a request  *)
(* that arrives 60 seconds or more after the oldest timestamp its address   *)
(* still has in the window is admitted, however many were rejected before.  *)
C30_RejectedDoNotProlong ==
    [][cres'.n # cres.n =>
        LET ip == cres'.ip
            stored == ItemOr(email_check_requests, ip)
        IN  /\ cres'.status = HTTP_429 =>
                /\ admitted' = admitted
                /\ \A t \in {email_check_requests'[ip][j] :
                                j \in 1..Len(email_check_requests'[ip])} :
                       \E j \in 1..Len(stored) : stored[j] = t
                /\ Len(email_check_requests'[ip]) <= Len(stored)
            /\ (stored # <<>> /\ clock - stored[1] >= RateWindow) =>
                cres'.status # HTTP_429]_rateVars

\* after ten admitted requests and one rejected one, the next request of the
\* address is admitted a minute after the first
C30_Witness ==
    /\ cres.n = RateLimit + 2
    /\ cres.status # HTTP_429
    /\ cres.at = RateWindow
    /\ Len(admitted[cres.ip]) = RateLimit + 1
    /\ DOMAIN admitted = {cres.ip}

(* C23: the duplicate check and the insert of create-favorite are two       *)
(* steps.  Two requests of one user for one listing that both pass the      *)
(* check before either inserts are both answered 200, and the store then    *)
(* holds two favorite records for that (user_id, listing_id).               *)
SameFavorite(r1, r2) ==
    r1.user = r2.user /\ Clean(r1.listing) = Clean(r2.listing)

C23_BothInsertAfterBothChecked ==
    \A t1, t2 \in Threads :
        (/\ t1 # t2
         /\ pc[t1] = "done" /\ pc[t2] = "done"
         /\ inflight[t1].code = HTTP_200 /\ inflight[t2].code = HTTP_200
         /\ SameFavorite(inflight[t1], inflight[t2]))
        => Cardinality(FavoritesOf(favs, inflight[t1].user,
                                   Clean(inflight[t1].listing))) = 2

\* both requests were answered 200 and the store holds two records for the
\* same user and listing id
C23_Witness ==
    /\ ~serial
    /\ pc = [t \in Threads |-> "done"]
    /\ inflight[1].code = HTTP_200 /\ inflight[2].code = HTTP_200
    /\ SameFavorite(inflight[1], inflight[2])
    /\ Len(favs) = 2
    /\ favs[1] = favs[2]

(* C24 as stated: register, register-flexible and create-subscription       *)
(* answer a request whose email already has a user record with a client     *)
(* error (4xx) and insert nothing, and no two user records share an email.  *)
IsClientError(code) == code >= 400 /\ code < 500

C24_DuplicateEmailIsClientError ==
    [][resp'.op \in {"register", "register_flexible", "create_subscription"} =>
        /\ \A raw \in RegisterEmails, role \in UserRoles, ok \in BOOLEAN :
              (/\ IsEmailStr(raw)
               /\ get_user_by_email(NormalizeEmail(raw)) # 0
               /\ register_user(raw, role, ok))
              => IsClientError(resp'.code) /\ users' = users
        /\ \A raw \in RegisterEmails, ok \in BOOLEAN :
              (get_user_by_email(raw) # 0 /\ register_user_flexible(raw, ok))
              => IsClientError(resp'.code) /\ users' = users
        /\ \A raw \in RegisterEmails, ok \in BOOLEAN :
              (get_user_by_email(raw) # 0 /\ create_subscription(raw, ok))
              => IsClientError(resp'.code) /\ users' = users /\ subs' = subs
        /\ \A u, v \in 1..Len(users') :
              users'[u].email = users'[v].email => u = v]_vars

(* C27 as stated: a user created through register, register-flexible or     *)
(* create-subscription has role user, and so passes the access check only   *)
(* while one of the user's subscription records satisfies the access        *)
(* condition.                                                               *)
C27_RegisteredUserNeedsSubscription ==
    \A u \in UserIds :
        u > InitialUsers =>
            /\ users[u].role = "user"
            /\ get_current_subscribed_user(users, subs, now, u)
                   => \E i \in UserSubs(subs, u) : ValidAt(subs[i], now)
            /\ GatedStatus(u) = HTTP_200
                   => \E i \in UserSubs(subs, u) : ValidAt(subs[i], now)

(* C25 as stated: a request whose listing id is malformed (spells no UUID)  *)
(* is answered with a client error (4xx) and changes no state, for          *)
(* create-favorite and for get-listing-by-id.                               *)
C25_MalformedIdIsClientError ==
    [][\A t \in Threads, u \in FavoriteUsers, raw \in RequestIds :
          /\ (ParseUuid(Clean(raw)) = NoUuid /\ create_favorite_lookup(t, u, raw))
                 => /\ pc'[t] = "done"
                    /\ IsClientError(inflight'[t].code)
                    /\ favs' = favs
          /\ (ParseUuid(raw) = NoUuid /\ get_listing_by_id(t, u, raw))
                 => /\ pc'[t] = "done"
                    /\ IsClientError(inflight'[t].code)
                    /\ favs' = favs]_<<favVars, raceVars>>

(* C28: when the provider call that clears the cancel-at-period-end flag    *)
(* fails during a reactivation, through reactivate-subscription or through  *)
(* renew on a cancelled unexpired subscription, the request fails and the   *)
(* subscription records are unchanged: the record stays cancelled.          *)
ReactivatedByRenew(u) ==
    IF MostRecentSub(u) # 0
       /\ subs[MostRecentSub(u)].status = "cancelled"
       /\ subs[MostRecentSub(u)].ends_at > now
       /\ subs[MostRecentSub(u)].stripe_subscription_id # NoSid
    THEN MostRecentSub(u) ELSE 0

\* the most recent of the user's records with status cancelled, 0 when none
MostRecentCancelled(u) ==
    IF UserSubsWithStatus(subs, u, "cancelled") = {}
    THEN 0
    ELSE MostRecentOf(subs, UserSubsWithStatus(subs, u, "cancelled"))

ReactivatedByReactivate(u) ==
    IF MostRecentCancelled(u) # 0
       /\ subs[MostRecentCancelled(u)].ends_at > now
       /\ subs[MostRecentCancelled(u)].stripe_subscription_id # NoSid
    THEN MostRecentCancelled(u) ELSE 0

C28_FailedReactivationChangesNothing ==
    [][resp'.op \in {"renew", "reactivate"} =>
       \A u \in UserIds :
          /\ (ReactivatedByRenew(u) # 0 /\ renew_subscription(u, FALSE))
                => /\ resp'.code >= 400
                   /\ subs' = subs
                   /\ subs'[ReactivatedByRenew(u)].status = "cancelled"
          /\ (ReactivatedByReactivate(u) # 0 /\ reactivate_subscription(u, FALSE))
                => /\ resp'.code >= 400
                   /\ subs' = subs
                   /\ subs'[ReactivatedByReactivate(u)].status = "cancelled"]_vars

\* a reactivate-subscription was answered 500, which only the failed provider
\* call does, and the cancelled record is still cancelled within its period
C28_Witness ==
    /\ resp.op = "reactivate"
    /\ resp.code = HTTP_500
    /\ \E u \in UserIds : ReactivatedByReactivate(u) # 0

(* C29: a payment-succeeded event whose provider subscription id has no     *)
(* local record appends one record that carries the looked-up email and no  *)
(* user_id; the records every user's access check, renew, cancel and        *)
(* reactivate read, and the outcome of the access check, are the same       *)
(* before and after; and exactly one record then carries that provider id.  *)
C29_SynthesizedRecordBelongsToNoUser ==
    [][resp'.op = "webhook" =>
       \A ev \in Events :
          (/\ ev.type = "payment_intent.created"
           /\ ev.sid # NoSid
           /\ SubsWithSid(subs, ev.sid) = {}
           /\ stripe_webhook(ev))
          => /\ Len(subs') = Len(subs) + 1
             /\ \A i \in 1..Len(subs) : subs'[i] = subs[i]
             /\ subs'[Len(subs')].user_id \notin UserIds
             /\ subs'[Len(subs')].user_email = ev.email
             /\ Cardinality(SubsWithSid(subs', ev.sid)) = 1
             /\ \A u \in UserIds :
                   /\ UserSubs(subs', u) = UserSubs(subs, u)
                   /\ get_current_subscribed_user(users, subs', now, u)
                        = get_current_subscribed_user(users, subs, now, u)]_vars

\* a record was synthesized for the email of a user, who has no record of
\* their own and is refused by the access check
C29_Witness ==
    /\ resp.op = "webhook"
    /\ resp.detail = "payment_intent.created"
    /\ \E i \in 1..Len(subs) :
          /\ subs[i].user_id = 0
          /\ subs[i].user_email = "a@x"
          /\ subs[i].ends_at > now
    /\ get_user_by_email("a@x") # 0
    /\ UserSubs(subs, get_user_by_email("a@x")) = {}
    /\ ~get_current_subscribed_user(users, subs, now, get_user_by_email("a@x"))

====
